---- MODULE Spec2Model ----
(***************************************************************************)
(* Luxurium Booking: the alert-derivation engine (utils/alertEngine.ts),   *)
(* the date helpers it uses (utils/dateUtils.ts), the booking store        *)
(* (state/BookingStore.tsx) and the alert resolution store with its merge  *)
(* layer (state/AlertStore.tsx).                                           *)
(*                                                                         *)
(* Conventions                                                             *)
(*   - An optional value (T | undefined | null) is <<>> when absent and    *)
(*     <<v>> when present.                                                 *)
(*   - A string whose characters matter (notes, phone, address) is a       *)
(*     sequence of one-character strings; trim() works on that sequence.   *)
(*   - A Date is an instant counted in hours; a calendar day is an         *)
(*     integer.  The local time zone of the browser is the variable zone.  *)
(*   - An alert id "a-b-c" is the sequence of its "-"-separated segments,  *)
(*     a date key counting as one segment; a Map key "a|b|c" is the        *)
(*     sequence of its "|"-separated segments.                             *)
(*   - A JS Map is a sequence of <<key, value>> pairs in insertion order.  *)
(*   - The text of a localStorage item is the JSON value it denotes: a     *)
(*     pair <<type, value>> of the JSON type and the value, an object's    *)
(*     value being the sequence of its <<key, value>> entries and an       *)
(*     array's the sequence of its elements.  The empty text has the type  *)
(*     "empty" and a text JSON.parse rejects has the type "invalid".       *)
(***************************************************************************)
EXTENDS Integers, Sequences, FiniteSets, TLC

VARIABLES
    allBookings,   \* BookingStoreProvider: useState allBookings (deleted ones included)
    now,           \* AlertStoreProvider: useState now, refreshed by the interval timer
    zone,          \* the browser's time zone (environment of every Date call)
    resolutions,   \* AlertStoreProvider: useState resolutions, alert id -> AlertResolution
    baseAlerts,    \* AlertStoreProvider: useMemo buildAlerts(bookings, now)
    alerts,        \* AlertStoreProvider: useMemo merged AlertWithResolution[]
    lastOp,        \* the operation the last step performed, with its arguments, and
                   \* what the load effect found if it ran after that step
    orphaned,      \* history: ids whose record has been unused by some rebuild since it was written
    storage,       \* window.localStorage: the item stored under STORAGE_KEY
    hasLoadedRef,  \* AlertStoreProvider: useRef hasLoadedRef
    pending,       \* setResolutions calls queued by effects, applied by the next render
    phase,         \* where the session is: "mounted" (first render done), "flush", "ready",
                   \* or "crashed" (an exception left an effect and React unmounted the tree)
    build,         \* "production", or "development" where React.StrictMode runs effects twice
    disk           \* window.localStorage: "ok", "full" (setItem throws) or "blocked" (every call throws)

vars ==
    <<allBookings, now, zone, resolutions, baseAlerts, alerts, lastOp, orphaned,
      storage, hasLoadedRef, pending, phase, build, disk>>

----------------------------------------------------------------------------
(* Optional values and strings *)

None == <<>>

Some(x) == <<x>>

IsSome(o) == o /= <<>>

Get(o) == o[1]

Max(a, b) == IF a >= b THEN a ELSE b

RECURSIVE TrimStart(_)
TrimStart(s) ==
    IF s /= <<>> /\ Head(s) = " " THEN TrimStart(Tail(s)) ELSE s

RECURSIVE TrimEnd(_)
TrimEnd(s) ==
    IF s /= <<>> /\ s[Len(s)] = " " THEN TrimEnd(SubSeq(s, 1, Len(s) - 1)) ELSE s

\* String.prototype.trim
Trim(s) == TrimEnd(TrimStart(s))

RECURSIVE Flatten(_)
Flatten(ss) == IF ss = <<>> THEN <<>> ELSE Head(ss) \o Flatten(Tail(ss))

----------------------------------------------------------------------------
(* JS Map, insertion ordered *)

MapHas(m, k) == \E i \in 1..Len(m) : m[i][1] = k

MapGet(m, k) == m[CHOOSE i \in 1..Len(m) : m[i][1] = k][2]

MapSet(m, k, v) ==
    IF MapHas(m, k)
    THEN [i \in 1..Len(m) |-> IF m[i][1] = k THEN <<k, v>> ELSE m[i]]
    ELSE Append(m, <<k, v>>)

----------------------------------------------------------------------------
(* Dates.  An instant is a number of hours; local time is the instant plus *)
(* the zone's UTC offset at that instant.  FIXED never changes its offset  *)
(* (Asia/Karachi); AUTUMN sets its clocks back one hour at 02:00 local     *)
(* time of day TransitionDay, SPRING sets them forward one hour then.      *)

HoursPerDay == 24

TransitionDay == 10

Zones == {"FIXED", "AUTUMN", "SPRING"}

\* the instant at which the zone z changes its offset
TransitionInstant(z) ==
    IF z = "AUTUMN" THEN HoursPerDay * TransitionDay + 1
                    ELSE HoursPerDay * TransitionDay + 2

\* Date.prototype.getTimezoneOffset, negated, in hours
UtcOffset(z, t) ==
    CASE z = "FIXED"  -> 0
      [] z = "AUTUMN" -> IF t < TransitionInstant(z) THEN 1 ELSE 0
      [] z = "SPRING" -> IF t < TransitionInstant(z) THEN 0 ELSE 1

\* getFullYear/getMonth/getDate: the local calendar day of an instant
LocalDay(z, t) == (t + UtcOffset(z, t)) \div HoursPerDay

\* new Date(y, m, d): the instant of local midnight of a calendar day
LocalMidnight(z, day) ==
    CHOOSE t \in (HoursPerDay * day - 1)..(HoursPerDay * day) :
        t + UtcOffset(z, t) = HoursPerDay * day

\* new Date("27 Nov 2025"): a date-only label is read as local midnight
parseEventDateLabel(label) == LocalMidnight(zone, label)

\* YYYY-MM-DD of the local calendar day
dateKeyFromDate(d) == LocalDay(zone, d)

startOfDay(d) == LocalMidnight(zone, LocalDay(zone, d))

addDays(base, days) == base + days * HoursPerDay

----------------------------------------------------------------------------
(* The alert engine: buildAlerts(bookings, today) *)

FollowUpDays == 15

HighGuestCount == 1500

HighAdvanceAmount == 200000

HumanSlot(slot) == IF slot = "LUNCH" THEN "Lunch" ELSE "Dinner"

\* one pass of the inner loop "for (const hall of b.halls ?? [])": acc holds
\* the two hall-keyed Maps
RECURSIVE IndexHalls_LastCapacity(_, _, _, _)
\* faulty variant: the capacity of a hall is the one of the last allocation seen
IndexHalls_LastCapacity(b, dk, halls, acc) ==
    IF halls = <<>> THEN acc
    ELSE
        LET hall == Head(halls)
            key == <<dk, b.slot, hall.hallCode>>
            list == IF MapHas(acc.slotHallBookings, key)
                    THEN MapGet(acc.slotHallBookings, key) ELSE <<>>
            hasPrev == MapHas(acc.hallSlotUsage, key)
            prev == MapGet(acc.hallSlotUsage, key)
            nextUsed == (IF hasPrev THEN prev.used ELSE 0) + hall.guestsHere
            nextCapacity == hall.capacity
            nextEventCount == (IF hasPrev THEN prev.eventCount ELSE 0) + 1
            prevSampleGuestsHere == IF hasPrev THEN prev.sampleGuestsHere ELSE 0
            takeSample == hall.guestsHere >= prevSampleGuestsHere
            usage ==
                [used |-> nextUsed,
                 capacity |-> nextCapacity,
                 eventCount |-> nextEventCount,
                 sampleBookingId |->
                     IF takeSample THEN Some(b.id)
                     ELSE IF hasPrev THEN prev.sampleBookingId ELSE None,
                 sampleDateLabel |->
                     IF takeSample THEN Some(b.eventDateLabel)
                     ELSE IF hasPrev THEN prev.sampleDateLabel ELSE None,
                 sampleGuestsHere |->
                     IF takeSample THEN hall.guestsHere ELSE prevSampleGuestsHere]
        IN  IndexHalls_LastCapacity(b, dk, Tail(halls),
                [acc EXCEPT
                    !.slotHallBookings = MapSet(@, key, Append(list, b)),
                    !.hallSlotUsage = MapSet(@, key, usage)])

RECURSIVE IndexHalls(_, _, _, _)
IndexHalls(b, dk, halls, acc) ==
    IF halls = <<>> THEN acc
    ELSE
        LET hall == Head(halls)
            key == <<dk, b.slot, hall.hallCode>>
            list == IF MapHas(acc.slotHallBookings, key)
                    THEN MapGet(acc.slotHallBookings, key) ELSE <<>>
            hasPrev == MapHas(acc.hallSlotUsage, key)
            prev == MapGet(acc.hallSlotUsage, key)
            nextUsed == (IF hasPrev THEN prev.used ELSE 0) + hall.guestsHere
            nextCapacity ==
                Max(IF hasPrev THEN prev.capacity ELSE hall.capacity, hall.capacity)
            nextEventCount == (IF hasPrev THEN prev.eventCount ELSE 0) + 1
            prevSampleGuestsHere == IF hasPrev THEN prev.sampleGuestsHere ELSE 0
            takeSample == hall.guestsHere >= prevSampleGuestsHere
            usage ==
                [used |-> nextUsed,
                 capacity |-> nextCapacity,
                 eventCount |-> nextEventCount,
                 sampleBookingId |->
                     IF takeSample THEN Some(b.id)
                     ELSE IF hasPrev THEN prev.sampleBookingId ELSE None,
                 sampleDateLabel |->
                     IF takeSample THEN Some(b.eventDateLabel)
                     ELSE IF hasPrev THEN prev.sampleDateLabel ELSE None,
                 sampleGuestsHere |->
                     IF takeSample THEN hall.guestsHere ELSE prevSampleGuestsHere]
        IN  IndexHalls(b, dk, Tail(halls),
                [acc EXCEPT
                    !.slotHallBookings = MapSet(@, key, Append(list, b)),
                    !.hallSlotUsage = MapSet(@, key, usage)])

\* the indexing loop "for (const b of bookings)": the three Maps
RECURSIVE IndexBookings(_, _)
IndexBookings(bookings, acc) ==
    IF bookings = <<>> THEN acc
    ELSE
        LET b == Head(bookings)
            d == parseEventDateLabel(b.eventDateLabel)
            dk == dateKeyFromDate(d)
            daySlotKey == <<dk, b.slot>>
            daySlotArr == IF MapHas(acc.daySlotBookings, daySlotKey)
                          THEN MapGet(acc.daySlotBookings, daySlotKey) ELSE <<>>
            withDay ==
                [acc EXCEPT
                    !.daySlotBookings = MapSet(@, daySlotKey, Append(daySlotArr, b))]
        IN  IndexBookings(Tail(bookings), IndexHalls(b, dk, b.halls, withDay))

EmptyIndex ==
    [slotHallBookings |-> <<>>, daySlotBookings |-> <<>>, hallSlotUsage |-> <<>>]

\* faulty variant: the comparison lets an exactly full hall through as overbooked
CapacityAlert_AtCapacity(entry) ==
    LET key == entry[1]
        usage == entry[2]
    IN  IF usage.used < usage.capacity THEN <<>>
        ELSE <<[id |-> <<"cap", key[1], key[2], key[3]>>,
                type |-> "CAPACITY_OVERRIDE",
                severity |-> "critical",
                bookingId |-> usage.sampleBookingId,
                dateKey |-> Some(key[1]),
                slot |-> Some(key[2]),
                title |-> <<"Capacity override - Hall", key[3]>>,
                message |-> [dateLabel |-> key[1],
                             humanSlot |-> HumanSlot(key[2]),
                             hallCode |-> key[3],
                             used |-> usage.used,
                             eventCount |-> usage.eventCount,
                             capacity |-> usage.capacity],
                sub |-> <<"overbooked">>]>>

\* faulty variant: the capacity alert is linked to no booking
CapacityAlert_Unlinked(entry) ==
    LET key == entry[1]
        usage == entry[2]
    IN  IF usage.used <= usage.capacity THEN <<>>
        ELSE <<[id |-> <<"cap", key[1], key[2], key[3]>>,
                type |-> "CAPACITY_OVERRIDE",
                severity |-> "critical",
                bookingId |-> None,
                dateKey |-> Some(key[1]),
                slot |-> Some(key[2]),
                title |-> <<"Capacity override - Hall", key[3]>>,
                message |-> [dateLabel |-> IF IsSome(usage.sampleDateLabel)
                                           THEN Get(usage.sampleDateLabel) ELSE key[1],
                             humanSlot |-> HumanSlot(key[2]),
                             hallCode |-> key[3],
                             used |-> usage.used,
                             eventCount |-> usage.eventCount,
                             capacity |-> usage.capacity],
                sub |-> <<"overbooked">>]>>

\* 1) capacity override, one entry of hallSlotUsage
CapacityAlert(entry) ==
    LET key == entry[1]
        usage == entry[2]
        dk == key[1]
        slotStr == key[2]
        hallCode == key[3]
        dateLabel == IF IsSome(usage.sampleDateLabel)
                     THEN Get(usage.sampleDateLabel) ELSE dk
    IN  IF usage.used <= usage.capacity THEN <<>>
        ELSE <<[id |-> <<"cap", dk, slotStr, hallCode>>,
                type |-> "CAPACITY_OVERRIDE",
                severity |-> "critical",
                bookingId |-> usage.sampleBookingId,
                dateKey |-> Some(dk),
                slot |-> Some(slotStr),
                title |-> <<"Capacity override - Hall", hallCode>>,
                message |-> [dateLabel |-> dateLabel,
                             humanSlot |-> HumanSlot(slotStr),
                             hallCode |-> hallCode,
                             used |-> usage.used,
                             eventCount |-> usage.eventCount,
                             capacity |-> usage.capacity],
                sub |-> <<"overbooked">>]>>

\* 2) performance conflict, one entry of slotHallBookings
PerformanceAlert(entry) ==
    LET key == entry[1]
        list == entry[2]
        dk == key[1]
        slotStr == key[2]
        hallCode == key[3]
        hasPerformance == \E i \in 1..Len(list) : list[i].hasPerformance
        anyWithPerf ==
            list[CHOOSE i \in 1..Len(list) :
                    /\ list[i].hasPerformance
                    /\ \A j \in 1..(i - 1) : ~list[j].hasPerformance]
    IN  IF Len(list) <= 1 \/ ~hasPerformance THEN <<>>
        ELSE <<[id |-> <<"perf", "conflict", dk, slotStr, hallCode>>,
                type |-> "PERFORMANCE_HALL_CONFLICT",
                severity |-> "warning",
                bookingId |-> Some(anyWithPerf.id),
                dateKey |-> Some(dk),
                slot |-> Some(slotStr),
                title |-> <<"Performance + other event in same hall">>,
                message |-> [events |-> Len(list),
                             hallCode |-> hallCode,
                             humanSlot |-> HumanSlot(slotStr),
                             dateLabel |-> anyWithPerf.eventDateLabel],
                sub |-> <<"exclusive">>]>>

\* a string that is undefined, null or "" is falsy
Falsy(optStr) == ~IsSome(optStr) \/ Get(optStr) = <<>>

\* !s || s.trim() === ""
Missing(optStr) == Falsy(optStr) \/ Trim(Get(optStr)) = <<>>

\* 3) inquiry / tentative within 15 days
SoftFollowAlert(b, todayStart, in15Days) ==
    LET d == parseEventDateLabel(b.eventDateLabel)
        dk == dateKeyFromDate(d)
        isSoftStatus == b.status = "INQUIRY" \/ b.status = "TENTATIVE"
    IN  IF isSoftStatus /\ d >= todayStart /\ d <= in15Days
        THEN <<[id |-> <<"soft", "follow", b.id>>,
                type |-> "SOFT_BOOKING_FOLLOWUP",
                severity |-> "warning",
                bookingId |-> Some(b.id),
                dateKey |-> Some(dk),
                slot |-> Some(b.slot),
                title |-> IF b.status = "INQUIRY"
                          THEN <<"Inquiry - follow up">>
                          ELSE <<"Tentative - confirm or release">>,
                message |-> <<b.eventDateLabel, HumanSlot(b.slot)>>,
                sub |-> <<b.status,
                          IF Falsy(b.customerPhone) THEN <<>> ELSE Get(b.customerPhone)>>]>>
        ELSE <<>>

\* faulty variant: a booking of today already counts as past
PastOpenAlert_IncludesToday(b, todayStart) ==
    LET d == parseEventDateLabel(b.eventDateLabel)
        isOpenStatus ==
            b.status = "INQUIRY" \/ b.status = "TENTATIVE" \/ b.status = "CONFIRMED"
    IN  IF d <= todayStart /\ isOpenStatus
        THEN <<[id |-> <<"past", "open", b.id>>,
                type |-> "PAST_NOT_CLOSED",
                severity |-> "warning",
                bookingId |-> Some(b.id),
                dateKey |-> Some(dateKeyFromDate(d)),
                slot |-> Some(b.slot),
                title |-> <<"Past booking not closed">>,
                message |-> <<b.eventDateLabel, b.status>>,
                sub |-> <<"close">>]>>
        ELSE <<>>

\* 4) past bookings that are not COMPLETED or CANCELLED
PastOpenAlert(b, todayStart) ==
    LET d == parseEventDateLabel(b.eventDateLabel)
        dk == dateKeyFromDate(d)
        isPast == d < todayStart
        isOpenStatus ==
            b.status = "INQUIRY" \/ b.status = "TENTATIVE" \/ b.status = "CONFIRMED"
    IN  IF isPast /\ isOpenStatus
        THEN <<[id |-> <<"past", "open", b.id>>,
                type |-> "PAST_NOT_CLOSED",
                severity |-> "warning",
                bookingId |-> Some(b.id),
                dateKey |-> Some(dk),
                slot |-> Some(b.slot),
                title |-> <<"Past booking not closed">>,
                message |-> <<b.eventDateLabel, b.status>>,
                sub |-> <<"close">>]>>
        ELSE <<>>

\* faulty variant: an address of blanks only counts as given
MissingContactAlert_BlankAddressGiven(b) ==
    LET dk == dateKeyFromDate(parseEventDateLabel(b.eventDateLabel))
        missingPhone == Missing(b.customerPhone)
        missingAddress == Falsy(b.customerAddress)
        missingParts ==
            (IF missingPhone THEN <<"phone">> ELSE <<>>)
                \o (IF missingAddress THEN <<"address">> ELSE <<>>)
    IN  IF missingPhone \/ missingAddress
        THEN <<[id |-> <<"missing", "contact", b.id>>,
                type |-> "MISSING_CONTACT",
                severity |-> "info",
                bookingId |-> Some(b.id),
                dateKey |-> Some(dk),
                slot |-> Some(b.slot),
                title |-> <<"Missing contact details">>,
                message |-> missingParts,
                sub |-> missingParts]>>
        ELSE <<>>

\* 5) missing phone or address
MissingContactAlert(b) ==
    LET dk == dateKeyFromDate(parseEventDateLabel(b.eventDateLabel))
        missingPhone == Missing(b.customerPhone)
        missingAddress == Missing(b.customerAddress)
        missingParts ==
            (IF missingPhone THEN <<"phone">> ELSE <<>>)
                \o (IF missingAddress THEN <<"address">> ELSE <<>>)
    IN  IF missingPhone \/ missingAddress
        THEN <<[id |-> <<"missing", "contact", b.id>>,
                type |-> "MISSING_CONTACT",
                severity |-> "info",
                bookingId |-> Some(b.id),
                dateKey |-> Some(dk),
                slot |-> Some(b.slot),
                title |-> <<"Missing contact details">>,
                message |-> missingParts,
                sub |-> missingParts]>>
        ELSE <<>>

\* a || 0 on a nullable number
OrZero(optNum) == IF IsSome(optNum) THEN Get(optNum) ELSE 0

\* faulty variant: the split is looked at only when both hall counts are given
SplitMismatchAlert_NeedsBothCounts(b) ==
    LET dk == dateKeyFromDate(parseEventDateLabel(b.eventDateLabel))
        a == b.hallAGuests
        bb == b.hallBGuests
        sum == OrZero(a) + OrZero(bb)
    IN  IF (IsSome(a) /\ IsSome(bb)) /\ b.totalGuests /= 0 /\ sum /= b.totalGuests
        THEN <<[id |-> <<"split", "mismatch", b.id>>,
                type |-> "GUEST_SPLIT_MISMATCH",
                severity |-> "info",
                bookingId |-> Some(b.id),
                dateKey |-> Some(dk),
                slot |-> Some(b.slot),
                title |-> <<"Guest split mismatch">>,
                message |-> <<b.totalGuests, sum>>,
                sub |-> <<"check splits">>]>>
        ELSE <<>>

\* 6) guest split mismatch
SplitMismatchAlert(b) ==
    LET dk == dateKeyFromDate(parseEventDateLabel(b.eventDateLabel))
        a == b.hallAGuests
        bb == b.hallBGuests
        sum == OrZero(a) + OrZero(bb)
    IN  IF (IsSome(a) \/ IsSome(bb)) /\ b.totalGuests /= 0 /\ sum /= b.totalGuests
        THEN <<[id |-> <<"split", "mismatch", b.id>>,
                type |-> "GUEST_SPLIT_MISMATCH",
                severity |-> "info",
                bookingId |-> Some(b.id),
                dateKey |-> Some(dk),
                slot |-> Some(b.slot),
                title |-> <<"Guest split mismatch">>,
                message |-> <<b.totalGuests, sum>>,
                sub |-> <<"check splits">>]>>
        ELSE <<>>

\* 7) high guest count
HighGuestsAlert(b) ==
    LET dk == dateKeyFromDate(parseEventDateLabel(b.eventDateLabel))
    IN  IF b.totalGuests >= HighGuestCount
        THEN <<[id |-> <<"high", "guests", b.id>>,
                type |-> "HIGH_GUEST_COUNT",
                severity |-> "info",
                bookingId |-> Some(b.id),
                dateKey |-> Some(dk),
                slot |-> Some(b.slot),
                title |-> <<"Very large guest count">>,
                message |-> <<b.totalGuests>>,
                sub |-> <<"large event">>]>>
        ELSE <<>>

\* faulty variant: the high-advance alert reuses the id of the high-guests alert
HighAdvanceAlert_SharesId(b) ==
    LET dk == dateKeyFromDate(parseEventDateLabel(b.eventDateLabel))
    IN  IF IsSome(b.advance) /\ Get(b.advance) >= HighAdvanceAmount
        THEN <<[id |-> <<"high", "guests", b.id>>,
                type |-> "HIGH_ADVANCE_VALUE",
                severity |-> "info",
                bookingId |-> Some(b.id),
                dateKey |-> Some(dk),
                slot |-> Some(b.slot),
                title |-> <<"High-value booking (advance)">>,
                message |-> <<Get(b.advance)>>,
                sub |-> <<"finance">>]>>
        ELSE <<>>

\* 8) high advance value
HighAdvanceAlert(b) ==
    LET dk == dateKeyFromDate(parseEventDateLabel(b.eventDateLabel))
    IN  IF IsSome(b.advance) /\ Get(b.advance) >= HighAdvanceAmount
        THEN <<[id |-> <<"high", "advance", b.id>>,
                type |-> "HIGH_ADVANCE_VALUE",
                severity |-> "info",
                bookingId |-> Some(b.id),
                dateKey |-> Some(dk),
                slot |-> Some(b.slot),
                title |-> <<"High-value booking (advance)">>,
                message |-> <<Get(b.advance)>>,
                sub |-> <<"finance">>]>>
        ELSE <<>>

\* faulty variant: the engine looks at the resolution store and leaves out the
\* alerts that have a record
PerBookingAlerts_SkipsResolved(b, todayStart, in15Days) ==
    SelectSeq(SoftFollowAlert(b, todayStart, in15Days)
                  \o PastOpenAlert(b, todayStart)
                  \o MissingContactAlert(b)
                  \o SplitMismatchAlert(b)
                  \o HighGuestsAlert(b)
                  \o HighAdvanceAlert(b),
              LAMBDA a : a.id \notin DOMAIN resolutions)

\* the body of the per-booking loop, rules 3 to 8 in order
PerBookingAlerts(b, todayStart, in15Days) ==
    SoftFollowAlert(b, todayStart, in15Days)
        \o PastOpenAlert(b, todayStart)
        \o MissingContactAlert(b)
        \o SplitMismatchAlert(b)
        \o HighGuestsAlert(b)
        \o HighAdvanceAlert(b)

\* faulty variant: any two events in a slot make it complex
ComplexAlert_AnyTwoEvents(entry) ==
    LET key == entry[1]
        list == entry[2]
        dk == key[1]
        slotStr == key[2]
        multiHallEvents == SelectSeq(list, LAMBDA b : Len(b.halls) > 1)
        labelDate == IF multiHallEvents /= <<>>
                     THEN multiHallEvents[1].eventDateLabel ELSE dk
    IN  IF Len(list) > 1
        THEN <<[id |-> <<"complex", "multihall", dk, slotStr>>,
                type |-> "COMPLEX_MULTI_HALL_DAY",
                severity |-> "info",
                bookingId |-> None,
                dateKey |-> Some(dk),
                slot |-> Some(slotStr),
                title |-> <<"Complex multi-hall slot">>,
                message |-> <<Len(list), Len(multiHallEvents), HumanSlot(slotStr),
                              labelDate>>,
                sub |-> <<"review">>]>>
        ELSE <<>>

\* 9) complex multi-hall slot, one entry of daySlotBookings
ComplexAlert(entry) ==
    LET key == entry[1]
        list == entry[2]
        dk == key[1]
        slotStr == key[2]
        multiHallEvents == SelectSeq(list, LAMBDA b : Len(b.halls) > 1)
        labelDate == IF multiHallEvents /= <<>>
                     THEN multiHallEvents[1].eventDateLabel ELSE dk
    IN  IF Len(list) > 1 /\ (Len(multiHallEvents) >= 2 \/ Len(list) >= 3)
        THEN <<[id |-> <<"complex", "multihall", dk, slotStr>>,
                type |-> "COMPLEX_MULTI_HALL_DAY",
                severity |-> "info",
                bookingId |-> None,
                dateKey |-> Some(dk),
                slot |-> Some(slotStr),
                title |-> <<"Complex multi-hall slot">>,
                message |-> <<Len(list), Len(multiHallEvents), HumanSlot(slotStr),
                              labelDate>>,
                sub |-> <<"review">>]>>
        ELSE <<>>

\* faulty variant: an alert's id is its position in the result
buildAlerts_NumbersAlerts(bookings, today) ==
    LET todayStart == startOfDay(today)
        in15Days == addDays(todayStart, FollowUpDays)
        index == IndexBookings(bookings, EmptyIndex)
        found == Flatten([i \in 1..Len(index.hallSlotUsage) |->
                            CapacityAlert(index.hallSlotUsage[i])])
            \o Flatten([i \in 1..Len(index.slotHallBookings) |->
                            PerformanceAlert(index.slotHallBookings[i])])
            \o Flatten([i \in 1..Len(bookings) |->
                            PerBookingAlerts(bookings[i], todayStart, in15Days)])
            \o Flatten([i \in 1..Len(index.daySlotBookings) |->
                            ComplexAlert(index.daySlotBookings[i])])
    IN  [i \in 1..Len(found) |-> [found[i] EXCEPT !.id = <<"alert", i>>]]

buildAlerts(bookings, today) ==
    LET todayStart == startOfDay(today)
        in15Days == addDays(todayStart, FollowUpDays)
        index == IndexBookings(bookings, EmptyIndex)
    IN  Flatten([i \in 1..Len(index.hallSlotUsage) |->
                            CapacityAlert(index.hallSlotUsage[i])])
            \o Flatten([i \in 1..Len(index.slotHallBookings) |->
                            PerformanceAlert(index.slotHallBookings[i])])
            \o Flatten([i \in 1..Len(bookings) |->
                            PerBookingAlerts(bookings[i], todayStart, in15Days)])
            \o Flatten([i \in 1..Len(index.daySlotBookings) |->
                            ComplexAlert(index.daySlotBookings[i])])

----------------------------------------------------------------------------
(* The booking store: BookingStoreProvider *)

Slots == {"LUNCH", "DINNER"}

Statuses == {"INQUIRY", "TENTATIVE", "CONFIRMED", "COMPLETED", "CANCELLED"}

DefaultHallCapacity == 1000

\* a HallAllocation
Hall(hallCode, capacity, guestsHere) ==
    [hallCode |-> hallCode, capacity |-> capacity, guestsHere |-> guestsHere]

\* the active bookings: allBookings.filter((b) => !b.isDeleted)
ActiveBookings(all) == SelectSeq(all, LAMBDA b : ~b.isDeleted)

\* createBookingPayload: the id the booking form gives a new booking
NewId(bookings) ==
    LET ids == {bookings[i].id : i \in 1..Len(bookings)}
    IN  IF bookings = <<>> THEN 1
        ELSE 1 + CHOOSE m \in ids : \A x \in ids : x <= m

\* buildHallsFromSplit
buildHallsFromSplit(hallAGuests, hallBGuests) ==
    (IF IsSome(hallAGuests) /\ Get(hallAGuests) > 0
        THEN <<Hall("A", DefaultHallCapacity, Get(hallAGuests))>> ELSE <<>>)
    \o (IF IsSome(hallBGuests) /\ Get(hallBGuests) > 0
        THEN <<Hall("B", DefaultHallCapacity, Get(hallBGuests))>> ELSE <<>>)

\* prev.map((b) => (b.id === id ? updated : b))
ReplaceById(all, id, updated) ==
    [i \in 1..Len(all) |-> IF all[i].id = id THEN updated ELSE all[i]]

\* allBookings.find((b) => b.id === id)
HasBooking(all, id) == \E i \in 1..Len(all) : all[i].id = id

FindBooking(all, id) ==
    all[CHOOSE i \in 1..Len(all) :
            all[i].id = id /\ \A j \in 1..(i - 1) : all[j].id /= id]

----------------------------------------------------------------------------
(* The alert store: AlertStoreProvider *)

\* faulty variant: a record that some rebuild left unused is taken for stale
MergeAlerts_FreshOnly(defs, res) ==
    [i \in 1..Len(defs) |->
        LET def == defs[i]
            stored == IF def.id \in DOMAIN res /\ def.id \notin orphaned
                      THEN Some(res[def.id]) ELSE None
        IN  def @@ [resolution |-> stored,
                    effectiveStatus |->
                        IF IsSome(stored) THEN Get(stored).status ELSE "ACTIVE"]]

\* faulty variant: dismissed alerts are left out of the merged list
MergeAlerts_HidesDismissed(defs, res) ==
    LET shown == SelectSeq(defs,
                    LAMBDA def : ~(def.id \in DOMAIN res /\ res[def.id].status = "DISMISSED"))
    IN  [i \in 1..Len(shown) |->
            LET def == shown[i]
                stored == IF def.id \in DOMAIN res THEN Some(res[def.id]) ELSE None
            IN  def @@ [resolution |-> stored,
                        effectiveStatus |->
                            IF IsSome(stored) THEN Get(stored).status ELSE "ACTIVE"]]

\* the "alerts" memo: every definition with its stored resolution
MergeAlerts(defs, res) ==
    [i \in 1..Len(defs) |->
        LET def == defs[i]
            stored == IF def.id \in DOMAIN res THEN Some(res[def.id]) ELSE None
        IN  def @@ [resolution |-> stored,
                    effectiveStatus |->
                        IF IsSome(stored) THEN Get(stored).status ELSE "ACTIVE"]]

\* note?.trim() || fallback
TrimmedOr(note, fallback) ==
    IF IsSome(note) /\ Trim(Get(note)) /= <<>> THEN Some(Trim(Get(note))) ELSE fallback

\* faulty variant: resolving without a note forgets the note the record had
ResolvedRecord_DropsOldNote(prev, alertId, note, at) ==
    [alertId |-> alertId,
     status |-> "RESOLVED",
     note |-> TrimmedOr(note, None),
     updatedAt |-> at]

\* the record resolveAlert stores
ResolvedRecord(prev, alertId, note, at) ==
    [alertId |-> alertId,
     status |-> "RESOLVED",
     note |-> TrimmedOr(note, IF alertId \in DOMAIN prev THEN prev[alertId].note ELSE None),
     updatedAt |-> at]

\* faulty variant: dismissing without a note keeps the note the record had
DismissedRecord_KeepsOldNote(prev, alertId, note, at) ==
    [alertId |-> alertId,
     status |-> "DISMISSED",
     note |-> TrimmedOr(note, IF alertId \in DOMAIN prev THEN prev[alertId].note ELSE None),
     updatedAt |-> at]

\* faulty variant: a resolved alert stays resolved when it is dismissed
DismissedRecord_ResolvedIsFinal(prev, alertId, note, at) ==
    [alertId |-> alertId,
     status |-> IF alertId \in DOMAIN prev /\ prev[alertId].status = "RESOLVED"
                THEN "RESOLVED" ELSE "DISMISSED",
     note |-> TrimmedOr(note, None),
     updatedAt |-> at]

\* the record dismissAlert stores
DismissedRecord(prev, alertId, note, at) ==
    [alertId |-> alertId,
     status |-> "DISMISSED",
     note |-> TrimmedOr(note, None),
     updatedAt |-> at]

\* { ...prev, [alertId]: record }
Put(prev, alertId, record) ==
    [x \in DOMAIN prev \cup {alertId} |-> IF x = alertId THEN record ELSE prev[x]]

\* faulty variant: reopening marks the record ACTIVE and keeps it
Remove_KeepsRecord(prev, alertId) ==
    [x \in DOMAIN prev |-> IF x = alertId THEN [prev[x] EXCEPT !.status = "ACTIVE"] ELSE prev[x]]

\* faulty variant: reopening one alert forgets every record
Remove_ClearsAll(prev, alertId) == <<>>

\* const copy = { ...prev }; delete copy[alertId]
Remove(prev, alertId) == [x \in DOMAIN prev \ {alertId} |-> prev[x]]

\* faulty variant: the effective status is not looked at
getAlertsForBooking_AnyStatus(bookingId) ==
    SelectSeq(alerts, LAMBDA a : a.bookingId = Some(bookingId))

\* getAlertsForBooking
getAlertsForBooking(bookingId) ==
    SelectSeq(alerts,
        LAMBDA a : a.bookingId = Some(bookingId) /\ a.effectiveStatus = "ACTIVE")

----------------------------------------------------------------------------
(* Persistence of the resolutions: JSON.stringify, JSON.parse and          *)
(* normalizeResolutions                                                    *)

\* the JSON type of a parsed value
TypeOf(json) == json[1]

\* the content of a parsed value
ValueOf(json) == json[2]

JString(x) == <<"string", x>>

JNumber(x) == <<"number", x>>

JNull == <<"null", <<>>>>

JArray(elements) == <<"array", elements>>

JObject(entries) == <<"object", entries>>

\* the empty text
EmptyText == <<"empty", <<>>>>

\* a text that is not JSON
InvalidText == <<"invalid", <<>>>>

\* value && typeof value === "object": objects and arrays
IsObjectLike(value) == TypeOf(value) \in {"object", "array"}

\* the named properties of a value seen as a Record: an array has none of
\* the names the store reads
Fields(value) == IF TypeOf(value) = "object" THEN ValueOf(value) ELSE <<>>

\* Object.entries: an array is listed under its indices
Entries(value) ==
    IF TypeOf(value) = "object" THEN ValueOf(value)
    ELSE [i \in 1..Len(ValueOf(value)) |-> <<<<i - 1>>, ValueOf(value)[i]>>]

\* typeof v[field] === "string"
IsString(v, field) == MapHas(v, field) /\ TypeOf(MapGet(v, field)) = "string"

RECURSIVE KeysOf(_)
\* the keys of a record map, in the order Object.entries lists them
KeysOf(res) ==
    IF DOMAIN res = {} THEN <<>>
    ELSE LET k == CHOOSE k \in DOMAIN res : TRUE
         IN  <<k>> \o KeysOf([x \in DOMAIN res \ {k} |-> res[x]])

\* JSON.stringify of one AlertResolution: an undefined note is left out
StringifyRecord(r) ==
    JObject(<<<<"alertId", JString(r.alertId)>>,
              <<"status", JString(r.status)>>>>
            \o (IF IsSome(r.note) THEN <<<<"note", JString(Get(r.note))>>>> ELSE <<>>)
            \o <<<<"updatedAt", JString(r.updatedAt)>>>>)

\* JSON.stringify(resolutions)
Stringify(res) ==
    JObject([i \in 1..Len(KeysOf(res)) |->
                <<KeysOf(res)[i], StringifyRecord(res[KeysOf(res)[i]])>>])

\* faulty variant: a status that is a string is taken as it is
NormalizeEntry_AnyStatus(out, key, value, at) ==
    IF ~IsObjectLike(value) THEN out
    ELSE LET v == Fields(value)
             alertId == IF IsString(v, "alertId") THEN ValueOf(MapGet(v, "alertId")) ELSE key
             status == IF IsString(v, "status") THEN ValueOf(MapGet(v, "status")) ELSE "ACTIVE"
             note == IF IsString(v, "note") THEN Some(ValueOf(MapGet(v, "note")))
                     ELSE IF IsString(v, "reason") THEN Some(ValueOf(MapGet(v, "reason")))
                     ELSE None
             updatedAt == IF IsString(v, "updatedAt") THEN ValueOf(MapGet(v, "updatedAt"))
                          ELSE IF IsString(v, "dismissedAt") THEN ValueOf(MapGet(v, "dismissedAt"))
                          ELSE IF IsString(v, "resolvedAt") THEN ValueOf(MapGet(v, "resolvedAt"))
                          ELSE at
         IN  IF alertId = <<>> THEN out
             ELSE Put(out, alertId,
                      [alertId |-> alertId,
                       status |-> status,
                       note |-> TrimmedOr(note, None),
                       updatedAt |-> updatedAt])

\* faulty variant: the fields of older versions are not read
NormalizeEntry_NoLegacy(out, key, value, at) ==
    IF ~IsObjectLike(value) THEN out
    ELSE LET v == Fields(value)
             alertId == IF IsString(v, "alertId") THEN ValueOf(MapGet(v, "alertId")) ELSE key
             statusRaw == IF IsString(v, "status") THEN ValueOf(MapGet(v, "status")) ELSE ""
             status == IF statusRaw = "DISMISSED" \/ statusRaw = "RESOLVED"
                       THEN statusRaw ELSE "ACTIVE"
             note == IF IsString(v, "note") THEN Some(ValueOf(MapGet(v, "note"))) ELSE None
             updatedAt == IF IsString(v, "updatedAt") THEN ValueOf(MapGet(v, "updatedAt"))
                          ELSE at
         IN  IF alertId = <<>> THEN out
             ELSE Put(out, alertId,
                      [alertId |-> alertId,
                       status |-> status,
                       note |-> TrimmedOr(note, None),
                       updatedAt |-> updatedAt])

\* faulty variant: the record is stored under the key of the entry
NormalizeEntry_UnderKey(out, key, value, at) ==
    IF ~IsObjectLike(value) THEN out
    ELSE LET v == Fields(value)
             alertId == IF IsString(v, "alertId") THEN ValueOf(MapGet(v, "alertId")) ELSE key
             statusRaw == IF IsString(v, "status") THEN ValueOf(MapGet(v, "status")) ELSE ""
             status == IF statusRaw = "DISMISSED" \/ statusRaw = "RESOLVED"
                       THEN statusRaw ELSE "ACTIVE"
             note == IF IsString(v, "note") THEN Some(ValueOf(MapGet(v, "note")))
                     ELSE IF IsString(v, "reason") THEN Some(ValueOf(MapGet(v, "reason")))
                     ELSE None
             updatedAt == IF IsString(v, "updatedAt") THEN ValueOf(MapGet(v, "updatedAt"))
                          ELSE IF IsString(v, "dismissedAt") THEN ValueOf(MapGet(v, "dismissedAt"))
                          ELSE IF IsString(v, "resolvedAt") THEN ValueOf(MapGet(v, "resolvedAt"))
                          ELSE at
         IN  IF alertId = <<>> THEN out
             ELSE Put(out, key,
                      [alertId |-> alertId,
                       status |-> status,
                       note |-> TrimmedOr(note, None),
                       updatedAt |-> updatedAt])

\* one turn of the loop of normalizeResolutions
NormalizeEntry(out, key, value, at) ==
    IF ~IsObjectLike(value) THEN out
    ELSE LET v == Fields(value)
             alertId == IF IsString(v, "alertId") THEN ValueOf(MapGet(v, "alertId")) ELSE key
             statusRaw == IF IsString(v, "status") THEN ValueOf(MapGet(v, "status")) ELSE ""
             status == IF statusRaw = "DISMISSED" \/ statusRaw = "RESOLVED"
                       THEN statusRaw ELSE "ACTIVE"
             note == IF IsString(v, "note") THEN Some(ValueOf(MapGet(v, "note")))
                     ELSE IF IsString(v, "reason") THEN Some(ValueOf(MapGet(v, "reason")))
                     ELSE None
             updatedAt == IF IsString(v, "updatedAt") THEN ValueOf(MapGet(v, "updatedAt"))
                          ELSE IF IsString(v, "dismissedAt") THEN ValueOf(MapGet(v, "dismissedAt"))
                          ELSE IF IsString(v, "resolvedAt") THEN ValueOf(MapGet(v, "resolvedAt"))
                          ELSE at
         IN  IF alertId = <<>> THEN out
             ELSE Put(out, alertId,
                      [alertId |-> alertId,
                       status |-> status,
                       note |-> TrimmedOr(note, None),
                       updatedAt |-> updatedAt])

RECURSIVE NormalizeEntries(_, _, _)
NormalizeEntries(entries, out, at) ==
    IF entries = <<>> THEN out
    ELSE NormalizeEntries(Tail(entries),
                          NormalizeEntry(out, Head(entries)[1], Head(entries)[2], at), at)

\* normalizeResolutions(input); at is the instant of new Date()
normalizeResolutions(input, at) ==
    IF ~IsObjectLike(input) THEN <<>>
    ELSE NormalizeEntries(Entries(input), <<>>, at)

----------------------------------------------------------------------------
(* Steps.  Every step ends with the re-render, which recomputes the memos   *)
(* whose dependencies the step changed.                                    *)

EmittedIds(defs) == {defs[i].id : i \in 1..Len(defs)}

\* the "alerts" memo and the history of unused records, after a step that
\* wrote the records of the ids in touched
Merge(touched) ==
    /\ alerts' = MergeAlerts(baseAlerts', resolutions')
    /\ orphaned' =
        {x \in DOMAIN resolutions' : x \in orphaned \ touched}
            \cup (DOMAIN resolutions' \ EmittedIds(baseAlerts'))

\* bookings or now changed: both memos are recomputed
Rebuild ==
    /\ baseAlerts' = buildAlerts(ActiveBookings(allBookings'), now')
    /\ Merge({})

\* only resolutions changed: the "baseAlerts" memo is kept
Remerge(touched) ==
    /\ baseAlerts' = baseAlerts
    /\ Merge(touched)

Disks == {"ok", "full", "blocked"}

\* window.localStorage.getItem(STORAGE_KEY): the item, and whether the call threw
GetItem(store) ==
    IF disk = "blocked" THEN [item |-> None, threw |-> TRUE]
    ELSE [item |-> store, threw |-> FALSE]

\* window.localStorage.setItem(STORAGE_KEY, text): the item after the call,
\* and whether the call threw
SetItem(store, text) ==
    IF disk = "ok" THEN [item |-> Some(text), threw |-> FALSE]
    ELSE [item |-> store, threw |-> TRUE]

\* the load effect: the setResolutions call it queues, if any.  An exception
\* of getItem or of JSON.parse is caught, and an absent or empty item is
\* skipped by "if (raw)"
LoadEffect(store, at) ==
    LET got == GetItem(store)
    IN  IF got.threw \/ ~IsSome(got.item) THEN <<>>
        ELSE IF TypeOf(Get(got.item)) \in {"empty", "invalid"} THEN <<>>
        ELSE <<normalizeResolutions(Get(got.item), at)>>

\* faulty variant: the call of setItem is not inside a try block
PersistEffect_NoCatch(store, loaded, res) ==
    IF loaded THEN SetItem(store, Stringify(res))
    ELSE [item |-> store, threw |-> FALSE]

\* the persist effect: the item after it ran, and whether an exception left
\* the effect; the catch block swallows the one of setItem
PersistEffect(store, loaded, res) ==
    IF loaded THEN [SetItem(store, Stringify(res)) EXCEPT !.threw = FALSE]
    ELSE [item |-> store, threw |-> FALSE]

\* an exception that leaves an effect unmounts the tree
AfterEffect(threw, next) == IF threw THEN "crashed" ELSE next

\* resolutions changed in a running session: the persist effect runs after the render
Persist ==
    /\ storage' = PersistEffect(storage, hasLoadedRef, resolutions').item
    /\ phase' = AfterEffect(PersistEffect(storage, hasLoadedRef, resolutions').threw, phase)
    /\ UNCHANGED <<hasLoadedRef, pending, build, disk>>

\* lastOp: the operation, its id and note arguments, for the alert store's
\* operations the record the id had before the call, and for deleteBooking
\* the active bookings and the merged alerts that were shown before the call
Op(name, id, note, prev) ==
    [op |-> name, id |-> id, note |-> note, prev |-> prev, read |-> None, shown |-> None]

Stored(res, alertId) == IF alertId \in DOMAIN res THEN Some(res[alertId]) ELSE None

\* addBooking(booking), the booking made by the form's createBookingPayload
AddBooking(template, limit) ==
    /\ Len(allBookings) < limit
    /\ LET booking ==
            [template EXCEPT !.id = NewId(ActiveBookings(allBookings))]
       IN  /\ allBookings' = Append(allBookings, booking)
           /\ lastOp' = Op("addBooking", Some(booking.id), None, None)
    /\ UNCHANGED <<now, zone, resolutions, storage, hasLoadedRef, pending, phase, build,
                   disk>>
    /\ Rebuild

\* updateBooking(id, { status })
UpdateStatus(id, status) ==
    /\ HasBooking(allBookings, id)
    /\ LET existing == FindBooking(allBookings, id)
           updated == [existing EXCEPT !.status = status]
       IN  allBookings' = ReplaceById(allBookings, id, updated)
    /\ lastOp' = Op("updateBooking", Some(id), None, None)
    /\ UNCHANGED <<now, zone, resolutions, storage, hasLoadedRef, pending, phase, build,
                   disk>>
    /\ Rebuild

\* updateBookingHallSplit(id, hallAGuests, hallBGuests)
UpdateBookingHallSplit(id, hallAGuests, hallBGuests) ==
    /\ HasBooking(allBookings, id)
    /\ LET existing == FindBooking(allBookings, id)
           updated == [existing EXCEPT
                          !.hallAGuests = hallAGuests,
                          !.hallBGuests = hallBGuests,
                          !.halls = buildHallsFromSplit(hallAGuests, hallBGuests)]
       IN  allBookings' = ReplaceById(allBookings, id, updated)
    /\ lastOp' = Op("updateBookingHallSplit", Some(id), None, None)
    /\ UNCHANGED <<now, zone, resolutions, storage, hasLoadedRef, pending, phase, build,
                   disk>>
    /\ Rebuild

\* deleteBooking(id): soft delete
DeleteBooking(id) ==
    /\ HasBooking(allBookings, id)
    /\ LET existing == FindBooking(allBookings, id)
           updated == [existing EXCEPT !.isDeleted = TRUE]
       IN  allBookings' = ReplaceById(allBookings, id, updated)
    /\ lastOp' = [Op("deleteBooking", Some(id), None, None) EXCEPT
                        !.shown = Some([bookings |-> ActiveBookings(allBookings),
                                        alerts |-> alerts])]
    /\ UNCHANGED <<now, zone, resolutions, storage, hasLoadedRef, pending, phase, build,
                   disk>>
    /\ Rebuild

\* restoreBooking(id)
RestoreBooking(id) ==
    /\ HasBooking(allBookings, id)
    /\ LET existing == FindBooking(allBookings, id)
           updated == [existing EXCEPT !.isDeleted = FALSE]
       IN  allBookings' = ReplaceById(allBookings, id, updated)
    /\ lastOp' = Op("restoreBooking", Some(id), None, None)
    /\ UNCHANGED <<now, zone, resolutions, storage, hasLoadedRef, pending, phase, build,
                   disk>>
    /\ Rebuild

\* the interval callback: setNow(new Date())
Tick(hours, limit) ==
    /\ now + hours <= limit
    /\ now' = now + hours
    /\ lastOp' = Op("tick", None, None, None)
    /\ UNCHANGED <<allBookings, zone, resolutions, storage, hasLoadedRef, pending, phase, build,
                   disk>>
    /\ Rebuild

\* resolveAlert(alertId, note)
resolveAlert(alertId, note) ==
    /\ resolutions' = Put(resolutions, alertId, ResolvedRecord(resolutions, alertId, note, now))
    /\ lastOp' = Op("resolve", Some(alertId), note, Stored(resolutions, alertId))
    /\ UNCHANGED <<allBookings, now, zone>>
    /\ Remerge({alertId})
    /\ Persist

\* dismissAlert(alertId, note)
dismissAlert(alertId, note) ==
    /\ resolutions' = Put(resolutions, alertId, DismissedRecord(resolutions, alertId, note, now))
    /\ lastOp' = Op("dismiss", Some(alertId), note, Stored(resolutions, alertId))
    /\ UNCHANGED <<allBookings, now, zone>>
    /\ Remerge({alertId})
    /\ Persist

\* reopenAlert(alertId)
reopenAlert(alertId) ==
    /\ resolutions' = Remove(resolutions, alertId)
    /\ lastOp' = Op("reopen", Some(alertId), None, Stored(resolutions, alertId))
    /\ UNCHANGED <<allBookings, now, zone>>
    /\ Remerge({alertId})
    /\ Persist

\* the page is reloaded: a new session renders for the first time
Restart ==
    /\ phase = "ready"
    /\ allBookings' = <<>>
    /\ resolutions' = <<>>
    /\ hasLoadedRef' = FALSE
    /\ pending' = <<>>
    /\ phase' = "mounted"
    /\ lastOp' = Op("restart", None, None, Some(resolutions))
    /\ UNCHANGED <<now, zone, storage, build, disk>>
    /\ Rebuild

\* the effects of the first commit, in the order of the component: the load
\* effect, then the persist effect; under React.StrictMode in a development
\* build both are run a second time before the next render
RunEffects ==
    /\ phase = "mounted"
    /\ LET load1 == LoadEffect(storage, now)
           persist1 == PersistEffect(storage, TRUE, resolutions)
           load2 == IF build = "development" THEN LoadEffect(persist1.item, now) ELSE <<>>
           persist2 == IF build = "development"
                       THEN PersistEffect(persist1.item, TRUE, resolutions) ELSE persist1
       IN  /\ pending' = load1 \o load2
           /\ storage' = persist2.item
           /\ phase' = AfterEffect(persist1.threw \/ persist2.threw, "flush")
    /\ lastOp' = [lastOp EXCEPT !.read = GetItem(storage).item]
    /\ hasLoadedRef' = TRUE
    /\ UNCHANGED <<allBookings, now, zone, resolutions, baseAlerts, alerts,
                   orphaned, build, disk>>

\* the render that applies the queued setResolutions calls, and its effects
Flush ==
    /\ phase = "flush"
    /\ resolutions' = IF pending = <<>> THEN resolutions ELSE pending[Len(pending)]
    /\ storage' = IF pending = <<>> THEN storage
                  ELSE PersistEffect(storage, hasLoadedRef, resolutions').item
    /\ pending' = <<>>
    /\ phase' = IF pending = <<>> THEN "ready"
                ELSE AfterEffect(PersistEffect(storage, hasLoadedRef, resolutions').threw,
                                 "ready")
    /\ UNCHANGED <<allBookings, now, zone, lastOp, hasLoadedRef, build, disk>>
    /\ Remerge({})

----------------------------------------------------------------------------
(* Bounds and inputs *)

MaxBookings == 1

MaxHallBookings == 2

MaxDateBookings == 2

TickHours == 12

MaxTicks == 3

\* the first reference instant: 00:00 UTC of day 2
NowStart == HoursPerDay * 2

ContactGiven == Some(<<"0", "3">>)

Booking(day, slot, status, hasPerformance, halls) ==
    [id |-> 0,
     eventDateLabel |-> day,
     slot |-> slot,
     totalGuests |-> 0,
     hallAGuests |-> None,
     hallBGuests |-> None,
     status |-> status,
     customerPhone |-> ContactGiven,
     customerAddress |-> ContactGiven,
     hasPerformance |-> hasPerformance,
     halls |-> halls,
     advance |-> None,
     isDeleted |-> FALSE]

\* hall allocation lists: none, one hall, both halls, the same hall twice
HallLists ==
    {<<>>,
     <<Hall("A", 1000, 300)>>,
     <<Hall("A", 1000, 700)>>,
     <<Hall("A", 0, 300)>>,
     <<Hall("A", 0, 0)>>,
     <<Hall("B", 1000, 1100)>>,
     <<Hall("A", 1000, 300), Hall("B", 1000, 700)>>,
     <<Hall("A", 1000, 700), Hall("A", 1000, 300)>>}

HallDaySlots == {<<20, "DINNER">>, <<20, "LUNCH">>, <<21, "DINNER">>}

HallBookings ==
    {Booking(ds[1], ds[2], "CONFIRMED", perf, halls) :
        ds \in HallDaySlots, perf \in BOOLEAN, halls \in HallLists}

\* event days around the follow-up window of the reference days 2 and 3
EventDays == {1, 2, 17, 18, 19}

DateBookings ==
    {Booking(day, "DINNER", status, FALSE, <<>>) : day \in EventDays, status \in Statuses}

AppStatuses == {"INQUIRY", "COMPLETED"}

\* bookings of the reference day with no phone number on file
AppBookings ==
    {[Booking(2, "DINNER", status, FALSE, <<>>) EXCEPT !.customerPhone = Some(<<>>)] :
        status \in AppStatuses}

AlertIdInputs == {<<"soft", "follow", 1>>, <<"missing", "contact", 1>>}

\* no note, a blank note, a plain note, a note with surrounding blanks
NoteInputs == {None, Some(<<" ">>), Some(<<"a">>), Some(<<" ", "b", " ">>)}

----------------------------------------------------------------------------
(* Specifications *)

Builds == {"production", "development"}

\* a session that has finished starting on empty storage
InitIn(zones, builds) ==
    /\ storage = Some(Stringify(<<>>))
    /\ hasLoadedRef = TRUE
    /\ pending = <<>>
    /\ phase = "ready"
    /\ build \in builds
    /\ disk = "ok"
    /\ allBookings = <<>>
    /\ now = NowStart
    /\ zone \in zones
    /\ resolutions = <<>>
    /\ baseAlerts = <<>>
    /\ alerts = <<>>
    /\ lastOp = Op("init", None, None, None)
    /\ orphaned = {}

\* the browser in Karachi
Init == InitIn({"FIXED"}, {"production"})

\* the browser in any of the zones
InitZones == InitIn(Zones, {"production"})

\* the application: bookings come and go and alerts are resolved
Next ==
    \/ \E t \in AppBookings : AddBooking(t, MaxBookings)
    \/ \E id \in 1..MaxBookings, status \in AppStatuses : UpdateStatus(id, status)
    \/ \E id \in 1..MaxBookings : DeleteBooking(id)
    \/ \E id \in 1..MaxBookings : RestoreBooking(id)
    \/ \E id \in AlertIdInputs, note \in NoteInputs : resolveAlert(id, note)
    \/ \E id \in AlertIdInputs, note \in NoteInputs : dismissAlert(id, note)
    \/ \E id \in AlertIdInputs : reopenAlert(id)

Spec == Init /\ [][Next]_vars

\* the engine on hall allocations
NextHall ==
    \/ \E t \in HallBookings : AddBooking(t, MaxHallBookings)

SpecHall == InitZones /\ [][NextHall]_vars

\* the engine on event dates, statuses and the reference time
NextDate ==
    \/ \E t \in DateBookings : AddBooking(t, MaxDateBookings)
    \/ Tick(TickHours, NowStart + MaxTicks * TickHours)

SpecDate == InitZones /\ [][NextDate]_vars

----------------------------------------------------------------------------
(* Vocabulary of the properties *)

HallCodes == {"A", "B"}

Bookings == ActiveBookings(allBookings)

EventDaysOf(bookings) == {bookings[i].eventDateLabel : i \in 1..Len(bookings)}

\* the booking positions that have at least one allocation in a hall/slot
UsersOf(bookings, day, slot, hallCode) ==
    {i \in 1..Len(bookings) :
        /\ bookings[i].eventDateLabel = day
        /\ bookings[i].slot = slot
        /\ \E j \in 1..Len(bookings[i].halls) : bookings[i].halls[j].hallCode = hallCode}

\* every allocation record of a hall/slot, in booking order
AllocationsOf(bookings, day, slot, hallCode) ==
    Flatten([i \in 1..Len(bookings) |->
        IF bookings[i].eventDateLabel = day /\ bookings[i].slot = slot
        THEN SelectSeq(bookings[i].halls, LAMBDA h : h.hallCode = hallCode)
        ELSE <<>>])

RECURSIVE SumGuestsHere(_)
SumGuestsHere(allocations) ==
    IF allocations = <<>> THEN 0
    ELSE Head(allocations).guestsHere + SumGuestsHere(Tail(allocations))

MaxCapacity(allocations) ==
    LET caps == {allocations[j].capacity : j \in 1..Len(allocations)}
    IN  CHOOSE c \in caps : \A x \in caps : x <= c

AlertsOfType(defs, type) == SelectSeq(defs, LAMBDA a : a.type = type)

CapacityAlertsFor(day, slot, hallCode) ==
    SelectSeq(AlertsOfType(baseAlerts, "CAPACITY_OVERRIDE"),
        LAMBDA a : a.id = <<"cap", day, slot, hallCode>>)

PerformanceAlertsFor(day, slot, hallCode) ==
    SelectSeq(AlertsOfType(baseAlerts, "PERFORMANCE_HALL_CONFLICT"),
        LAMBDA a : a.id = <<"perf", "conflict", day, slot, hallCode>>)

OverCapacity(bookings, day, slot, hallCode) ==
    LET allocations == AllocationsOf(bookings, day, slot, hallCode)
    IN  allocations /= <<>> /\ SumGuestsHere(allocations) > MaxCapacity(allocations)

----------------------------------------------------------------------------
(* C1: for every (date, slot, hallCode) key buildAlerts emits exactly one  *)
(* CAPACITY_OVERRIDE alert, critical, with id cap-{dateKey}-{slot}-{hall}, *)
(* when the guestsHere of all allocations of the key sum to more than the  *)
(* largest capacity seen for the key, and none otherwise; every            *)
(* CAPACITY_OVERRIDE alert belongs to such a key.                          *)
C1_CapacityPerKey ==
    /\ \A day \in EventDaysOf(Bookings), slot \in Slots, hallCode \in HallCodes :
        LET hits == CapacityAlertsFor(day, slot, hallCode)
        IN  IF OverCapacity(Bookings, day, slot, hallCode)
            THEN Len(hits) = 1 /\ hits[1].severity = "critical"
            ELSE hits = <<>>
    /\ \A i \in 1..Len(baseAlerts) :
        baseAlerts[i].type = "CAPACITY_OVERRIDE" =>
            \E day \in EventDaysOf(Bookings), slot \in Slots, hallCode \in HallCodes :
                baseAlerts[i].id = <<"cap", day, slot, hallCode>>

\* two bookings, each within the capacity of Hall A, overbook it together,
\* while Hall A in another slot is used and not overbooked
C1_Witness ==
    \E day \in EventDaysOf(Bookings), slot \in Slots :
        /\ Len(CapacityAlertsFor(day, slot, "A")) = 1
        /\ Cardinality(UsersOf(Bookings, day, slot, "A")) = 2
        /\ \A i \in UsersOf(Bookings, day, slot, "A") :
            \A j \in 1..Len(Bookings[i].halls) :
                Bookings[i].halls[j].guestsHere <= Bookings[i].halls[j].capacity
        /\ Len(AlertsOfType(baseAlerts, "CAPACITY_OVERRIDE")) = 1


----------------------------------------------------------------------------
(* C2: the CAPACITY_OVERRIDE alert of a key reports used = the sum of      *)
(* guestsHere of the key, capacity = the largest capacity seen for the     *)
(* key, and an event count equal to the number of distinct bookings that   *)
(* use that hall in that slot, also when a booking carries two allocation  *)
(* records for the same hall.                                              *)
C2_ReportsDistinctEvents ==
    \A day \in EventDaysOf(Bookings), slot \in Slots, hallCode \in HallCodes :
        LET hits == CapacityAlertsFor(day, slot, hallCode)
            allocations == AllocationsOf(Bookings, day, slot, hallCode)
        IN  \A i \in 1..Len(hits) :
                /\ hits[i].message.used = SumGuestsHere(allocations)
                /\ hits[i].message.capacity = MaxCapacity(allocations)
                /\ hits[i].message.eventCount =
                        Cardinality(UsersOf(Bookings, day, slot, hallCode))

\* what the code reports: used and capacity as claimed, and the number of
\* allocation records of the key as the event count
C2_ReportsAllocationRecords ==
    \A day \in EventDaysOf(Bookings), slot \in Slots, hallCode \in HallCodes :
        LET hits == CapacityAlertsFor(day, slot, hallCode)
            allocations == AllocationsOf(Bookings, day, slot, hallCode)
        IN  \A i \in 1..Len(hits) :
                /\ hits[i].message.used = SumGuestsHere(allocations)
                /\ hits[i].message.capacity = MaxCapacity(allocations)
                /\ hits[i].message.eventCount = Len(allocations)

----------------------------------------------------------------------------
(* C3: for every (date, slot, hallCode) key buildAlerts emits exactly one  *)
(* PERFORMANCE_HALL_CONFLICT alert, warning, with id                       *)
(* perf-conflict-{dateKey}-{slot}-{hall}, if and only if at least two      *)
(* bookings use that hall in that slot and one of them has a performance;  *)
(* a booking alone in a hall/slot never produces one.                      *)
C3_ConflictNeedsTwoBookings ==
    \A day \in EventDaysOf(Bookings), slot \in Slots, hallCode \in HallCodes :
        LET hits == PerformanceAlertsFor(day, slot, hallCode)
            users == UsersOf(Bookings, day, slot, hallCode)
        IN  IF Cardinality(users) >= 2 /\ \E i \in users : Bookings[i].hasPerformance
            THEN Len(hits) = 1 /\ hits[1].severity = "warning"
            ELSE hits = <<>>

\* what the code decides on: the allocation records of the key, not the bookings
C3_ConflictNeedsTwoRecords ==
    \A day \in EventDaysOf(Bookings), slot \in Slots, hallCode \in HallCodes :
        LET hits == PerformanceAlertsFor(day, slot, hallCode)
            users == UsersOf(Bookings, day, slot, hallCode)
            allocations == AllocationsOf(Bookings, day, slot, hallCode)
        IN  IF Len(allocations) >= 2 /\ \E i \in users : Bookings[i].hasPerformance
            THEN Len(hits) = 1 /\ hits[1].severity = "warning"
            ELSE hits = <<>>


----------------------------------------------------------------------------
(* Vocabulary of the date rules *)

\* the calendar day the reference instant falls on
Today == LocalDay(zone, now)

SoftStatuses == {"INQUIRY", "TENTATIVE"}

OpenStatuses == {"INQUIRY", "TENTATIVE", "CONFIRMED"}

SoftFollowAlertsFor(bookingId) ==
    SelectSeq(AlertsOfType(baseAlerts, "SOFT_BOOKING_FOLLOWUP"),
        LAMBDA a : a.id = <<"soft", "follow", bookingId>>)

PastOpenAlertsFor(bookingId) ==
    SelectSeq(AlertsOfType(baseAlerts, "PAST_NOT_CLOSED"),
        LAMBDA a : a.id = <<"past", "open", bookingId>>)

----------------------------------------------------------------------------
(* C4: for every booking b and every reference instant on calendar day T,  *)
(* buildAlerts emits soft-follow-{b.id}, warning, if and only if b is an   *)
(* INQUIRY or TENTATIVE and T <= eventDate(b) <= T + 15 days; a booking    *)
(* dated T + 15 is included, T + 16 and T - 1 are excluded.                *)
C4_FollowUpWindowInDays ==
    \A i \in 1..Len(Bookings) :
        LET b == Bookings[i]
            hits == SoftFollowAlertsFor(b.id)
        IN  IF /\ b.status \in SoftStatuses
               /\ Today <= b.eventDateLabel
               /\ b.eventDateLabel <= Today + FollowUpDays
            THEN Len(hits) = 1 /\ hits[1].severity = "warning"
            ELSE hits = <<>>

\* where the zone never changes its offset the window is the claimed one
C4_FollowUpWindowFixedZone == zone = "FIXED" => C4_FollowUpWindowInDays

\* what the code decides on: 15 * 24 hours after the local midnight of T
C4_FollowUpWindowInHours ==
    \A i \in 1..Len(Bookings) :
        LET b == Bookings[i]
            hits == SoftFollowAlertsFor(b.id)
            d == LocalMidnight(zone, b.eventDateLabel)
            start == LocalMidnight(zone, Today)
        IN  IF /\ b.status \in SoftStatuses
               /\ start <= d
               /\ d <= start + FollowUpDays * HoursPerDay
            THEN Len(hits) = 1 /\ hits[1].severity = "warning"
            ELSE hits = <<>>

----------------------------------------------------------------------------
(* C5: for every booking b and reference day T, buildAlerts emits          *)
(* past-open-{b.id}, warning, if and only if eventDate(b) is before T and  *)
(* b is an INQUIRY, TENTATIVE or CONFIRMED; no booking has both            *)
(* past-open-{id} and soft-follow-{id} in one build.                       *)
C5_PastOpen ==
    \A i \in 1..Len(Bookings) :
        LET b == Bookings[i]
            hits == PastOpenAlertsFor(b.id)
        IN  /\ IF b.eventDateLabel < Today /\ b.status \in OpenStatuses
               THEN Len(hits) = 1 /\ hits[1].severity = "warning"
               ELSE hits = <<>>
            /\ ~(hits /= <<>> /\ SoftFollowAlertsFor(b.id) /= <<>>)

\* the clock has ticked into day 3: yesterday's TENTATIVE booking is flagged
\* and has no follow-up alert, yesterday's COMPLETED booking is not flagged
C5_Witness ==
    /\ lastOp.op = "tick"
    /\ Today = 3
    /\ \E i, j \in 1..Len(Bookings) :
        /\ Bookings[i].eventDateLabel = Today - 1
        /\ Bookings[i].status = "TENTATIVE"
        /\ Len(PastOpenAlertsFor(Bookings[i].id)) = 1
        /\ SoftFollowAlertsFor(Bookings[i].id) = <<>>
        /\ Bookings[j].eventDateLabel = Today - 1
        /\ Bookings[j].status = "COMPLETED"
        /\ PastOpenAlertsFor(Bookings[j].id) = <<>>


----------------------------------------------------------------------------
(* Vocabulary of the resolution store *)

StoreOps == {"resolve", "dismiss", "reopen"}

\* the alert id the last store operation was called with
LastId == Get(lastOp.id)

\* no note was supplied, or only blanks
Blank(note) == ~IsSome(note) \/ Trim(Get(note)) = <<>>

\* the note the record of the last operation's id had before the call
OldNote == IF IsSome(lastOp.prev) THEN Get(lastOp.prev).note ELSE None

\* the merged alerts with a given id
MergedOf(alertId) == SelectSeq(alerts, LAMBDA a : a.id = alertId)

----------------------------------------------------------------------------
(* C6: resolve(alertId, note) leaves the record of alertId RESOLVED; its   *)
(* note is the supplied note when a non-blank note is supplied, and        *)
(* otherwise the note the record had before the call.                      *)
C6_ResolveKeepsSuppliedNote ==
    lastOp.op = "resolve" =>
        /\ LastId \in DOMAIN resolutions
        /\ resolutions[LastId].status = "RESOLVED"
        /\ resolutions[LastId].note =
                IF Blank(lastOp.note) THEN OldNote ELSE lastOp.note

\* C6 as amended: the note stored is the supplied note without its leading
\* and trailing whitespace when that is not empty, and otherwise the note the
\* record had before the call.
C6_ResolveKeepsTrimmedNote ==
    lastOp.op = "resolve" =>
        /\ LastId \in DOMAIN resolutions
        /\ resolutions[LastId].status = "RESOLVED"
        /\ resolutions[LastId].note =
                IF Blank(lastOp.note) THEN OldNote ELSE Some(Trim(Get(lastOp.note)))

\* resolve(id) without a note on a record dismissed with note "a"
C6_Witness ==
    /\ lastOp.op = "resolve"
    /\ lastOp.note = None
    /\ IsSome(lastOp.prev)
    /\ Get(lastOp.prev).status = "DISMISSED"
    /\ Get(lastOp.prev).note = Some(<<"a">>)
    /\ resolutions[LastId].status = "RESOLVED"
    /\ resolutions[LastId].note = Some(<<"a">>)

----------------------------------------------------------------------------
(* C7: dismiss(alertId, note) leaves the record of alertId DISMISSED with  *)
(* note equal to the supplied note, or absent when no note is supplied; a  *)
(* note stored earlier is never kept.                                      *)
C7_DismissStoresSuppliedNote ==
    lastOp.op = "dismiss" =>
        /\ LastId \in DOMAIN resolutions
        /\ resolutions[LastId].status = "DISMISSED"
        /\ resolutions[LastId].note = lastOp.note

\* C7 as amended: the note stored is the supplied note without its leading
\* and trailing whitespace, and absent when no note is supplied or the
\* supplied note is blank; a note stored earlier is never kept.
C7_DismissStoresTrimmedNote ==
    lastOp.op = "dismiss" =>
        /\ LastId \in DOMAIN resolutions
        /\ resolutions[LastId].status = "DISMISSED"
        /\ resolutions[LastId].note =
                IF Blank(lastOp.note) THEN None ELSE Some(Trim(Get(lastOp.note)))

\* dismiss(id) without a note on a record that held note "a"
C7_Witness ==
    /\ lastOp.op = "dismiss"
    /\ lastOp.note = None
    /\ IsSome(lastOp.prev)
    /\ Get(lastOp.prev).note = Some(<<"a">>)
    /\ resolutions[LastId].status = "DISMISSED"
    /\ resolutions[LastId].note = None


----------------------------------------------------------------------------
(* C8: for an alert id the engine currently emits, after dismiss(id, n)    *)
(* the merged alert is DISMISSED with resolution.note = n; after reopen(id)*)
(* the record is gone, the merged alert is ACTIVE with no resolution, and  *)
(* a resolve(id) without a note that finds no record stores no note.       *)
C8_RoundTripSuppliedNote ==
    /\ (lastOp.op = "dismiss" /\ LastId \in EmittedIds(baseAlerts)) =>
        /\ MergedOf(LastId) /= <<>>
        /\ \A i \in 1..Len(MergedOf(LastId)) :
            /\ MergedOf(LastId)[i].effectiveStatus = "DISMISSED"
            /\ IsSome(MergedOf(LastId)[i].resolution)
            /\ Get(MergedOf(LastId)[i].resolution).note = lastOp.note
    /\ (lastOp.op = "reopen" /\ LastId \in EmittedIds(baseAlerts)) =>
        /\ LastId \notin DOMAIN resolutions
        /\ MergedOf(LastId) /= <<>>
        /\ \A i \in 1..Len(MergedOf(LastId)) :
            /\ MergedOf(LastId)[i].effectiveStatus = "ACTIVE"
            /\ MergedOf(LastId)[i].resolution = None
    /\ (lastOp.op = "resolve" /\ Blank(lastOp.note) /\ lastOp.prev = None) =>
        resolutions[LastId].note = None

\* C8 as amended: after dismiss(id, n) the note of the merged alert is n
\* without its leading and trailing whitespace, and absent when n is blank;
\* the rest as claimed.
C8_RoundTripTrimmedNote ==
    /\ (lastOp.op = "dismiss" /\ LastId \in EmittedIds(baseAlerts)) =>
        /\ MergedOf(LastId) /= <<>>
        /\ \A i \in 1..Len(MergedOf(LastId)) :
            /\ MergedOf(LastId)[i].effectiveStatus = "DISMISSED"
            /\ IsSome(MergedOf(LastId)[i].resolution)
            /\ Get(MergedOf(LastId)[i].resolution).note =
                    IF Blank(lastOp.note) THEN None ELSE Some(Trim(Get(lastOp.note)))
    /\ (lastOp.op = "reopen" /\ LastId \in EmittedIds(baseAlerts)) =>
        /\ LastId \notin DOMAIN resolutions
        /\ MergedOf(LastId) /= <<>>
        /\ \A i \in 1..Len(MergedOf(LastId)) :
            /\ MergedOf(LastId)[i].effectiveStatus = "ACTIVE"
            /\ MergedOf(LastId)[i].resolution = None
    /\ (lastOp.op = "resolve" /\ Blank(lastOp.note) /\ lastOp.prev = None) =>
        resolutions[LastId].note = None

\* reopen(id) of an emitted alert that was dismissed with note "a"
C8_Witness ==
    /\ lastOp.op = "reopen"
    /\ IsSome(lastOp.prev)
    /\ Get(lastOp.prev).status = "DISMISSED"
    /\ Get(lastOp.prev).note = Some(<<"a">>)
    /\ Len(MergedOf(LastId)) = 1
    /\ MergedOf(LastId)[1].effectiveStatus = "ACTIVE"
    /\ MergedOf(LastId)[1].resolution = None

----------------------------------------------------------------------------
(* C9: a resolution record survives recomputation.  No step other than     *)
(* resolve, dismiss and reopen changes the records; whenever an alert is   *)
(* emitted whose id has a record, also after the id was not emitted for a  *)
(* while, the merged alert carries that record and its status; an INQUIRY  *)
(* booking of today always comes back under the id soft-follow-{id}; and   *)
(* the three operations are enabled for ids that are not emitted.          *)
C9_RecordsSurviveRebuilds ==
    /\ [][lastOp'.op \notin StoreOps => resolutions' = resolutions]_vars
    /\ [](\A i \in 1..Len(alerts) :
            alerts[i].id \in DOMAIN resolutions =>
                /\ alerts[i].resolution = Some(resolutions[alerts[i].id])
                /\ alerts[i].effectiveStatus = resolutions[alerts[i].id].status)
    /\ [](\A i \in 1..Len(Bookings) :
            (Bookings[i].status = "INQUIRY" /\ Bookings[i].eventDateLabel = Today) =>
                <<"soft", "follow", Bookings[i].id>> \in EmittedIds(alerts))
    /\ [](\A id \in AlertIdInputs \ EmittedIds(baseAlerts) :
            /\ ENABLED resolveAlert(id, None)
            /\ ENABLED dismissAlert(id, None)
            /\ ENABLED reopenAlert(id))

\* a booking change brought back an alert whose record had been unused
C9_Witness ==
    /\ lastOp.op \in {"updateBooking", "restoreBooking"}
    /\ \E id \in orphaned :
        /\ id \in DOMAIN resolutions
        /\ Len(MergedOf(id)) = 1
        /\ MergedOf(id)[1].effectiveStatus = resolutions[id].status
        /\ resolutions[id].status \in {"RESOLVED", "DISMISSED"}

----------------------------------------------------------------------------
(* C10: the merged list has exactly one entry per AlertDefinition, in the  *)
(* same order, with every definition field unchanged; an entry's           *)
(* resolution is the record stored under the definition's id, absent if    *)
(* there is none, and its effectiveStatus is that record's status, or      *)
(* ACTIVE when there is no record.                                         *)
C10_MergeOverlaysRecords ==
    /\ Len(alerts) = Len(baseAlerts)
    /\ \A i \in 1..Len(alerts) :
        /\ DOMAIN alerts[i] = DOMAIN baseAlerts[i] \cup {"resolution", "effectiveStatus"}
        /\ \A f \in DOMAIN baseAlerts[i] : alerts[i][f] = baseAlerts[i][f]
        /\ IF baseAlerts[i].id \in DOMAIN resolutions
           THEN /\ alerts[i].resolution = Some(resolutions[baseAlerts[i].id])
                /\ alerts[i].effectiveStatus = resolutions[baseAlerts[i].id].status
           ELSE /\ alerts[i].resolution = None
                /\ alerts[i].effectiveStatus = "ACTIVE"

\* two alerts are emitted, one dismissed with a record, the other without one
C10_Witness ==
    /\ Len(baseAlerts) = 2
    /\ alerts[1].effectiveStatus = "ACTIVE"
    /\ alerts[1].resolution = None
    /\ alerts[2].effectiveStatus = "DISMISSED"
    /\ IsSome(alerts[2].resolution)


----------------------------------------------------------------------------
BookingIdInputs == 0..(MaxBookings + 1)

\* positions in the merged list of the ACTIVE alerts linked to a booking
ActiveLinked(bookingId) ==
    {j \in 1..Len(alerts) :
        alerts[j].bookingId = Some(bookingId) /\ alerts[j].effectiveStatus = "ACTIVE"}

(* C11: getAlertsForBooking(bookingId) returns exactly the merged alerts   *)
(* whose bookingId is the argument and whose effectiveStatus is ACTIVE,    *)
(* each once and in the order of the merged list; right after resolve or   *)
(* dismiss of an emitted alert of the booking the result does not contain  *)
(* it, and right after reopen the result contains it.                      *)
C11_ActiveAlertsOfBooking ==
    /\ \A b \in BookingIdInputs :
        LET r == getAlertsForBooking(b)
        IN  /\ Len(r) = Cardinality(ActiveLinked(b))
            /\ \A i \in 1..Len(r) : \E j \in ActiveLinked(b) : r[i] = alerts[j]
            /\ \A j \in ActiveLinked(b) : \E i \in 1..Len(r) : r[i] = alerts[j]
            /\ \A i, k \in 1..Len(r) :
                i < k => \E j, l \in ActiveLinked(b) :
                            j < l /\ r[i] = alerts[j] /\ r[k] = alerts[l]
    /\ \A j \in 1..Len(alerts) :
        (lastOp.op \in StoreOps /\ alerts[j].id = LastId /\ IsSome(alerts[j].bookingId)) =>
            LET r == getAlertsForBooking(Get(alerts[j].bookingId))
                listed == \E i \in 1..Len(r) : r[i].id = LastId
            IN  IF lastOp.op = "reopen" THEN listed ELSE ~listed

\* a booking with two alerts, one of them just dismissed: only the other is listed
C11_Witness ==
    /\ lastOp.op = "dismiss"
    /\ Len(alerts) = 2
    /\ alerts[1].id = LastId
    /\ alerts[1].bookingId = Some(1)
    /\ alerts[2].bookingId = Some(1)
    /\ Len(getAlertsForBooking(1)) = 1
    /\ getAlertsForBooking(1)[1].id = alerts[2].id


----------------------------------------------------------------------------
\* the effective status of an alert id: its record's status, ACTIVE without one
StatusOf(res, alertId) == IF alertId \in DOMAIN res THEN res[alertId].status ELSE "ACTIVE"

TargetOf(op) ==
    CASE op = "resolve" -> "RESOLVED"
      [] op = "dismiss" -> "DISMISSED"
      [] op = "reopen" -> "ACTIVE"

(* C12: per alert id the effective status is a machine of the three states *)
(* ACTIVE, RESOLVED and DISMISSED with no terminal state: in every state   *)
(* each of the three operations can be called on each id, and the call     *)
(* leaves the id RESOLVED after resolve, DISMISSED after dismiss and       *)
(* ACTIVE after reopen, whatever the status before the call; that holds    *)
(* for the record and for the merged alert when the id is emitted.         *)
C12_ThreeStateMachine ==
    /\ \A id \in AlertIdInputs :
        /\ ENABLED (resolveAlert(id, None) /\ StatusOf(resolutions', id) = "RESOLVED")
        /\ ENABLED (dismissAlert(id, None) /\ StatusOf(resolutions', id) = "DISMISSED")
        /\ ENABLED (reopenAlert(id) /\ StatusOf(resolutions', id) = "ACTIVE")
    /\ lastOp.op \in StoreOps =>
        /\ StatusOf(resolutions, LastId) = TargetOf(lastOp.op)
        /\ \A i \in 1..Len(MergedOf(LastId)) :
            MergedOf(LastId)[i].effectiveStatus = TargetOf(lastOp.op)

\* a resolved alert that is emitted was dismissed directly, with no reopen between
C12_Witness ==
    /\ lastOp.op = "dismiss"
    /\ IsSome(lastOp.prev)
    /\ Get(lastOp.prev).status = "RESOLVED"
    /\ Len(MergedOf(LastId)) = 1
    /\ MergedOf(LastId)[1].effectiveStatus = "DISMISSED"
    /\ StatusOf(resolutions, LastId) = "DISMISSED"


----------------------------------------------------------------------------
(* The resolution store across sessions *)

MaxStoreTicks == 1

\* the first visit: nothing is stored, the first render is done and its
\* effects have not run yet
InitStore ==
    /\ storage = None
    /\ hasLoadedRef = FALSE
    /\ pending = <<>>
    /\ phase = "mounted"
    /\ build \in Builds
    /\ disk = "ok"
    /\ allBookings = <<>>
    /\ now = NowStart
    /\ zone = "FIXED"
    /\ resolutions = <<>>
    /\ baseAlerts = <<>>
    /\ alerts = <<>>
    /\ lastOp = Op("init", None, None, None)
    /\ orphaned = {}

\* effects and the render they queue run before any event handler does
NextStore ==
    \/ RunEffects
    \/ Flush
    \/ Restart
    \/ phase = "ready" /\ Tick(TickHours, NowStart + MaxStoreTicks * TickHours)
    \/ \E id \in AlertIdInputs, note \in NoteInputs : phase = "ready" /\ resolveAlert(id, note)
    \/ \E id \in AlertIdInputs, note \in NoteInputs : phase = "ready" /\ dismissAlert(id, note)
    \/ \E id \in AlertIdInputs : phase = "ready" /\ reopenAlert(id)

SpecStore == InitStore /\ [][NextStore]_vars

----------------------------------------------------------------------------
\* a reloaded session that has finished starting
Restarted == lastOp.op = "restart" /\ phase = "ready"

(* C13: the resolution store survives a restart.  When a session that has  *)
(* written its records to storage is reloaded and the new session has      *)
(* finished starting, its in-memory map has the same alert ids and for     *)
(* each the same status, note and updatedAt as the map before the restart. *)
C13_RestartKeepsRecords ==
    Restarted => resolutions = Get(lastOp.prev)

\* C13 in a production build, where every effect runs once
C13_RestartKeepsRecordsInProduction ==
    (Restarted /\ build = "production") => resolutions = Get(lastOp.prev)

\* C13 in a development build: the reloaded session ends with no record at
\* all and with an empty map in storage
C13_RestartLosesRecordsInDevelopment ==
    (Restarted /\ build = "development") =>
        /\ resolutions = <<>>
        /\ storage = Some(Stringify(<<>>))


----------------------------------------------------------------------------
(* The engine on bookings that set off every rule *)

MaxEngineBookings == 2

\* a large inquiry for tonight in both halls with a performance, a wrong
\* split, no phone number and a high advance; a confirmed event in the same
\* halls; a tentative event of yesterday; a completed event without halls;
\* an overbooked inquiry at lunch; a small event in the same hall at lunch,
\* entered with a larger hall capacity
EngineBookings ==
    {[Booking(2, "DINNER", "INQUIRY", TRUE,
              <<Hall("A", 1000, 700), Hall("B", 1000, 400)>>) EXCEPT
          !.totalGuests = 1600, !.hallAGuests = Some(700), !.hallBGuests = Some(400),
          !.customerPhone = None, !.advance = Some(250000)],
     [Booking(2, "DINNER", "CONFIRMED", FALSE,
              <<Hall("A", 1000, 400), Hall("B", 1000, 700)>>) EXCEPT
          !.totalGuests = 1100, !.hallAGuests = Some(400), !.hallBGuests = Some(700)],
     [Booking(1, "LUNCH", "TENTATIVE", FALSE, <<Hall("A", 1000, 300)>>) EXCEPT
          !.totalGuests = 300],
     Booking(2, "DINNER", "COMPLETED", FALSE, <<>>),
     [Booking(2, "LUNCH", "INQUIRY", TRUE, <<Hall("A", 1000, 1200)>>) EXCEPT
          !.totalGuests = 1200],
     [Booking(2, "LUNCH", "CONFIRMED", FALSE, <<Hall("A", 1500, 200)>>) EXCEPT
          !.totalGuests = 200]}

NextEngine ==
    \/ \E t \in EngineBookings : AddBooking(t, MaxEngineBookings)
    \/ \E id \in 1..MaxEngineBookings : DeleteBooking(id)
    \/ \E id \in 1..MaxEngineBookings : RestoreBooking(id)

SpecEngine == Init /\ [][NextEngine]_vars

\* the bookings of a list have pairwise distinct ids
DistinctIds(bookings) ==
    \A i, j \in 1..Len(bookings) : i /= j => bookings[i].id /= bookings[j].id

TypesOf(defs) == {defs[i].type : i \in 1..Len(defs)}

(* C14: for every booking list whose bookings have pairwise distinct ids   *)
(* and every reference time, no two alerts returned by buildAlerts have    *)
(* the same id.                                                            *)
C14_UniqueAlertIds ==
    DistinctIds(Bookings) =>
        \A i, j \in 1..Len(baseAlerts) : i /= j => baseAlerts[i].id /= baseAlerts[j].id

\* two bookings with distinct ids set off eight of the nine rules, five of
\* them on one booking and two aggregates on each of two halls
C14_Witness ==
    /\ DistinctIds(Bookings)
    /\ Len(Bookings) = 2
    /\ Cardinality(TypesOf(baseAlerts)) = 8
    /\ Cardinality({i \in 1..Len(baseAlerts) : baseAlerts[i].bookingId = Some(1)}) >= 5
    /\ Cardinality({i \in 1..Len(baseAlerts) : baseAlerts[i].type = "CAPACITY_OVERRIDE"}) >= 2


----------------------------------------------------------------------------
HallAggregates == {"CAPACITY_OVERRIDE", "PERFORMANCE_HALL_CONFLICT"}

SlotAggregates == {"COMPLEX_MULTI_HALL_DAY"}

\* booking b is involved in the grouping key of alert x: it is the booking of
\* a per-booking alert, it has an allocation in the hall, day and slot of a
\* hall aggregate, or it is in the day and slot of a slot aggregate
InvolvedIn(b, x) ==
    LET sameSlot ==
            /\ x.dateKey = Some(dateKeyFromDate(parseEventDateLabel(b.eventDateLabel)))
            /\ x.slot = Some(b.slot)
    IN  IF x.type \in HallAggregates
        THEN sameSlot /\ \E h \in 1..Len(b.halls) : b.halls[h].hallCode = x.message.hallCode
        ELSE IF x.type \in SlotAggregates THEN sameSlot
        ELSE x.bookingId = Some(b.id)

\* the list emits an alert with the id and the type of x
Emits(defs, x) == \E i \in 1..Len(defs) : defs[i].id = x.id /\ defs[i].type = x.type

Without(s, k) == SubSeq(s, 1, k - 1) \o SubSeq(s, k + 1, Len(s))

(* C15: id stability.  If buildAlerts emits an alert with id X for booking *)
(* list B, then for any booking b' that is not involved in X's grouping    *)
(* key, buildAlerts on B with b' added (at either end) and on B with b'    *)
(* removed still emits an alert with the same id X and the same type.      *)
C15_IdsStableUnderUnrelatedBookings ==
    \A i \in 1..Len(baseAlerts) :
        /\ \A t \in EngineBookings :
            LET b == [t EXCEPT !.id = NewId(Bookings)]
            IN  ~InvolvedIn(b, baseAlerts[i]) =>
                    /\ Emits(buildAlerts(Append(Bookings, b), now), baseAlerts[i])
                    /\ Emits(buildAlerts(<<b>> \o Bookings, now), baseAlerts[i])
        /\ \A k \in 1..Len(Bookings) :
            ~InvolvedIn(Bookings[k], baseAlerts[i]) =>
                Emits(buildAlerts(Without(Bookings, k), now), baseAlerts[i])

\* the list has a booking with its own alert and an overbooked hall, and a
\* second booking elsewhere that is involved in neither
C15_Witness ==
    /\ Len(Bookings) = 2
    /\ \E i, j \in 1..Len(baseAlerts) :
        /\ baseAlerts[i].type = "CAPACITY_OVERRIDE"
        /\ baseAlerts[j].type = "SOFT_BOOKING_FOLLOWUP"
        /\ \E k \in 1..Len(Bookings) :
            /\ ~InvolvedIn(Bookings[k], baseAlerts[i])
            /\ ~InvolvedIn(Bookings[k], baseAlerts[j])
            /\ Emits(buildAlerts(Without(Bookings, k), now), baseAlerts[i])
            /\ Emits(buildAlerts(Without(Bookings, k), now), baseAlerts[j])


----------------------------------------------------------------------------
----------------------------------------------------------------------------
\* the rearrangements of a list
Rearrangements(s) ==
    {[i \in 1..Len(s) |-> s[p[i]]] :
        p \in {q \in [1..Len(s) -> 1..Len(s)] : \A i, j \in 1..Len(s) : i /= j => q[i] /= q[j]}}

\* the alerts of a list as identified by id, type and severity
Identities(defs) == {<<defs[i].id, defs[i].type, defs[i].severity>> : i \in 1..Len(defs)}

(* C17: order independence.  For every booking list and every permutation *)
(* of it buildAlerts returns the same set of alerts as identified by       *)
(* (id, type, severity).                                                   *)
C17_OrderIndependent ==
    \A permuted \in Rearrangements(Bookings) :
        Identities(buildAlerts(permuted, now)) = Identities(baseAlerts)

\* two bookings with alerts of their own, one of them overbooking a hall:
\* taken in the other order the array differs and the set of alerts does not
C17_Witness ==
    /\ Len(Bookings) = 2
    /\ \E i \in 1..Len(baseAlerts) : baseAlerts[i].type = "CAPACITY_OVERRIDE"
    /\ buildAlerts(<<Bookings[2], Bookings[1]>>, now) /= baseAlerts
    /\ Identities(buildAlerts(<<Bookings[2], Bookings[1]>>, now)) = Identities(baseAlerts)


----------------------------------------------------------------------------
(* C18: resolve(id), dismiss(id) and reopen(id) change at most the record  *)
(* of that one alert id: every other id has a record after the call        *)
(* exactly when it had one before, and the same one; the bookings, deleted *)
(* ones included, and the AlertDefinition list of the engine are unchanged.*)
C18_StoreOpsTouchOneRecord ==
    [][lastOp'.op \in StoreOps =>
        /\ \A x \in (DOMAIN resolutions \cup DOMAIN resolutions') \ {Get(lastOp'.id)} :
            /\ x \in DOMAIN resolutions
            /\ x \in DOMAIN resolutions'
            /\ resolutions'[x] = resolutions[x]
        /\ allBookings' = allBookings
        /\ baseAlerts' = baseAlerts]_vars

\* one of two emitted alerts was reopened and the other one's record is there
C18_Witness ==
    /\ lastOp.op = "reopen"
    /\ IsSome(lastOp.prev)
    /\ LastId \notin DOMAIN resolutions
    /\ Len(baseAlerts) = 2
    /\ \E x \in DOMAIN resolutions : x /= LastId /\ x \in EmittedIds(baseAlerts)


----------------------------------------------------------------------------
(* The engine on guest splits *)

MaxSplitBookings == 2

TotalGuestsInputs == {0, 500}

HallAGuestsInputs == {None, Some(0), Some(200), Some(500)}

HallBGuestsInputs == {None, Some(300)}

\* a confirmed event far ahead, entered without a split
SplitBookings ==
    {[Booking(20, "DINNER", "CONFIRMED", FALSE, <<>>) EXCEPT !.totalGuests = g] :
        g \in TotalGuestsInputs}

NextSplit ==
    \/ \E t \in SplitBookings : AddBooking(t, MaxSplitBookings)
    \/ \E id \in 1..MaxSplitBookings, a \in HallAGuestsInputs, b \in HallBGuestsInputs :
        UpdateBookingHallSplit(id, a, b)

SpecSplit == Init /\ [][NextSplit]_vars

SplitMismatchAlertsFor(bookingId) ==
    {i \in 1..Len(baseAlerts) : baseAlerts[i].id = <<"split", "mismatch", bookingId>>}

(* C19: for every booking b, buildAlerts emits split-mismatch-{b.id}, once *)
(* and with severity info, if and only if at least one of hallAGuests and  *)
(* hallBGuests is non-null, totalGuests is non-zero, and hallAGuests +     *)
(* hallBGuests with nulls counted as 0 differs from totalGuests.           *)
C19_SplitMismatch ==
    \A k \in 1..Len(Bookings) :
        LET b == Bookings[k]
            a == IF b.hallAGuests = None THEN 0 ELSE Get(b.hallAGuests)
            bb == IF b.hallBGuests = None THEN 0 ELSE Get(b.hallBGuests)
            expected ==
                /\ b.hallAGuests /= None \/ b.hallBGuests /= None
                /\ b.totalGuests /= 0
                /\ a + bb /= b.totalGuests
        IN  /\ Cardinality(SplitMismatchAlertsFor(b.id)) = IF expected THEN 1 ELSE 0
            /\ \A i \in SplitMismatchAlertsFor(b.id) :
                /\ baseAlerts[i].type = "GUEST_SPLIT_MISMATCH"
                /\ baseAlerts[i].severity = "info"
                /\ baseAlerts[i].bookingId = Some(b.id)

\* 200 guests in hall A, none entered for hall B, 500 in total: one alert;
\* next to it a booking of 500 with no split at all: none
C19_Witness ==
    /\ Len(Bookings) = 2
    /\ Bookings[1].hallAGuests = Some(200)
    /\ Bookings[1].hallBGuests = None
    /\ Bookings[1].totalGuests = 500
    /\ Cardinality(SplitMismatchAlertsFor(1)) = 1
    /\ Bookings[2].hallAGuests = None
    /\ Bookings[2].hallBGuests = None
    /\ Bookings[2].totalGuests = 500
    /\ SplitMismatchAlertsFor(2) = {}


----------------------------------------------------------------------------
(* The engine on the events of a slot *)

MaxSlotBookings == 3

\* no hall, one hall, both halls, one hall in two allocations
SlotHallLists ==
    {<<>>,
     <<Hall("A", 1000, 100)>>,
     <<Hall("A", 1000, 100), Hall("B", 1000, 100)>>,
     <<Hall("A", 1000, 100), Hall("A", 1000, 50)>>}

SlotBookings ==
    {Booking(20, slot, "CONFIRMED", FALSE, halls) : slot \in Slots, halls \in SlotHallLists}

NextSlot ==
    \/ \E t \in SlotBookings : AddBooking(t, MaxSlotBookings)

SpecSlot == Init /\ [][NextSlot]_vars

\* positions in the list of the bookings of a day and slot
GroupOf(bookings, dk, slot) ==
    {k \in 1..Len(bookings) :
        /\ dateKeyFromDate(parseEventDateLabel(bookings[k].eventDateLabel)) = dk
        /\ bookings[k].slot = slot}

ComplexAlertsFor(dk, slot) ==
    {i \in 1..Len(baseAlerts) : baseAlerts[i].id = <<"complex", "multihall", dk, slot>>}

(* C20: for every (date, slot) key buildAlerts emits exactly one           *)
(* COMPLEX_MULTI_HALL_DAY alert, severity info and id                      *)
(* complex-multihall-{dateKey}-{slot}, if and only if the group has at     *)
(* least 2 bookings and either at least 2 of them have more than one hall  *)
(* allocation or the group has at least 3 bookings; no other alert of the  *)
(* type is emitted.                                                        *)
C20_ComplexSlot ==
    /\ \A day \in EventDaysOf(Bookings), slot \in Slots :
        LET dk == dateKeyFromDate(parseEventDateLabel(day))
            group == GroupOf(Bookings, dk, slot)
            multiHall == {k \in group : Len(Bookings[k].halls) > 1}
            expected ==
                /\ Cardinality(group) >= 2
                /\ Cardinality(multiHall) >= 2 \/ Cardinality(group) >= 3
        IN  /\ Cardinality(ComplexAlertsFor(dk, slot)) = IF expected THEN 1 ELSE 0
            /\ \A i \in ComplexAlertsFor(dk, slot) :
                /\ baseAlerts[i].type = "COMPLEX_MULTI_HALL_DAY"
                /\ baseAlerts[i].severity = "info"
    /\ \A i \in 1..Len(baseAlerts) :
        baseAlerts[i].type = "COMPLEX_MULTI_HALL_DAY" =>
            \E day \in EventDaysOf(Bookings), slot \in Slots :
                i \in ComplexAlertsFor(dateKeyFromDate(parseEventDateLabel(day)), slot)

\* three events at dinner of which one uses both halls: one alert
C20_Witness ==
    /\ Len(Bookings) = 3
    /\ Cardinality(GroupOf(Bookings, dateKeyFromDate(parseEventDateLabel(20)), "DINNER")) = 3
    /\ Cardinality({k \in 1..3 : Len(Bookings[k].halls) > 1}) = 1
    /\ Cardinality(ComplexAlertsFor(dateKeyFromDate(parseEventDateLabel(20)), "DINNER")) = 1


----------------------------------------------------------------------------
(* The engine on contact details *)

MaxContactBookings == 2

\* absent, empty, blanks only, given, given with a leading blank
ContactInputs == {None, Some(<<>>), Some(<<" ">>), ContactGiven, Some(<<" ", "0">>)}

\* a confirmed event far ahead
ContactBookings ==
    {[Booking(20, "DINNER", "CONFIRMED", FALSE, <<>>) EXCEPT
          !.customerPhone = phone, !.customerAddress = address] :
        phone \in ContactInputs, address \in ContactInputs}

NextContact ==
    \/ \E t \in ContactBookings : AddBooking(t, MaxContactBookings)

SpecContact == Init /\ [][NextContact]_vars

\* a contact field that is absent, empty or made of whitespace only
NoContact(field) == field = None \/ \A i \in 1..Len(Get(field)) : Get(field)[i] = " "

MissingContactAlertsFor(bookingId) ==
    {i \in 1..Len(baseAlerts) : baseAlerts[i].id = <<"missing", "contact", bookingId>>}

(* C21: for every booking b, buildAlerts emits missing-contact-{b.id},     *)
(* severity info, if and only if the customer phone is absent, empty or    *)
(* whitespace only, or the customer address is; exactly one alert is       *)
(* emitted when both are missing, and its message names exactly the        *)
(* missing fields.                                                         *)
C21_MissingContact ==
    \A k \in 1..Len(Bookings) :
        LET b == Bookings[k]
            noPhone == NoContact(b.customerPhone)
            noAddress == NoContact(b.customerAddress)
            named == (IF noPhone THEN {"phone"} ELSE {})
                        \cup (IF noAddress THEN {"address"} ELSE {})
            hits == MissingContactAlertsFor(b.id)
        IN  /\ Cardinality(hits) = IF noPhone \/ noAddress THEN 1 ELSE 0
            /\ \A i \in hits :
                /\ baseAlerts[i].type = "MISSING_CONTACT"
                /\ baseAlerts[i].severity = "info"
                /\ baseAlerts[i].bookingId = Some(b.id)
                /\ {baseAlerts[i].message[j] : j \in 1..Len(baseAlerts[i].message)} = named
                /\ Len(baseAlerts[i].message) = Cardinality(named)

\* a booking with no phone and an address of blanks has one alert naming
\* both fields; a booking with a padded phone and an address has none
C21_Witness ==
    /\ Len(Bookings) = 2
    /\ Bookings[1].customerPhone = None
    /\ Bookings[1].customerAddress = Some(<<" ">>)
    /\ Cardinality(MissingContactAlertsFor(1)) = 1
    /\ \A i \in MissingContactAlertsFor(1) : baseAlerts[i].message = <<"phone", "address">>
    /\ Bookings[2].customerPhone = Some(<<" ", "0">>)
    /\ Bookings[2].customerAddress = ContactGiven
    /\ MissingContactAlertsFor(2) = {}


----------------------------------------------------------------------------
AggregateTypes == HallAggregates \cup SlotAggregates

EngineIdInputs == 0..(MaxEngineBookings + 1)

\* getAlertsForBooking(bookingId) returns the merged alert x
ReturnedFor(bookingId, x) ==
    \E j \in 1..Len(getAlertsForBooking(bookingId)) : getAlertsForBooking(bookingId)[j] = x

\* positions of the bookings with an allocation in the hall, day and slot of
\* the hall aggregate x
HallUsers(bookings, x) ==
    {k \in 1..Len(bookings) :
        /\ Some(dateKeyFromDate(parseEventDateLabel(bookings[k].eventDateLabel))) = x.dateKey
        /\ Some(bookings[k].slot) = x.slot
        /\ \E h \in 1..Len(bookings[k].halls) :
                bookings[k].halls[h].hallCode = x.message.hallCode}

\* the guestsHere of the allocations booking k has in the hall of x
GuestsIn(bookings, k, x) ==
    {bookings[k].halls[h].guestsHere :
        h \in {g \in 1..Len(bookings[k].halls) :
                    bookings[k].halls[g].hallCode = x.message.hallCode}}

(* C22: every slot-level or day-level aggregate alert returned by          *)
(* buildAlerts (CAPACITY_OVERRIDE, PERFORMANCE_HALL_CONFLICT,              *)
(* COMPLEX_MULTI_HALL_DAY) has no bookingId, so it is never returned by    *)
(* getAlertsForBooking for any booking; only per-booking alerts carry a    *)
(* bookingId.                                                              *)
C22_AggregatesUnlinked ==
    \A i \in 1..Len(alerts) :
        IF alerts[i].type \in AggregateTypes
        THEN /\ alerts[i].bookingId = None
             /\ \A b \in EngineIdInputs : ~ReturnedFor(b, alerts[i])
        ELSE IsSome(alerts[i].bookingId)

\* C22 as amended: a COMPLEX_MULTI_HALL_DAY alert has no bookingId and is
\* returned by getAlertsForBooking for no booking.  A CAPACITY_OVERRIDE
\* alert carries the id of a booking that holds the largest single
\* allocation of its hall and slot, a PERFORMANCE_HALL_CONFLICT alert the id
\* of the first booking of the list that has a performance in its hall and
\* slot, and a per-booking alert the id of its booking; each of these is
\* returned by getAlertsForBooking for that id while it is ACTIVE, and for
\* no other id.
C22_AggregateLinks ==
    \A i \in 1..Len(alerts) :
        LET x == alerts[i]
            users == HallUsers(Bookings, x)
            linked ==
                /\ IsSome(x.bookingId)
                /\ \A b \in EngineIdInputs :
                    ReturnedFor(b, x) <=> (x.bookingId = Some(b) /\ x.effectiveStatus = "ACTIVE")
        IN  CASE x.type = "COMPLEX_MULTI_HALL_DAY" ->
                    /\ x.bookingId = None
                    /\ \A b \in EngineIdInputs : ~ReturnedFor(b, x)
              [] x.type = "CAPACITY_OVERRIDE" ->
                    /\ linked
                    /\ \E k \in users :
                        /\ x.bookingId = Some(Bookings[k].id)
                        /\ \E g \in GuestsIn(Bookings, k, x) :
                            \A l \in users : \A m \in GuestsIn(Bookings, l, x) : m <= g
              [] x.type = "PERFORMANCE_HALL_CONFLICT" ->
                    /\ linked
                    /\ \E k \in users :
                        /\ x.bookingId = Some(Bookings[k].id)
                        /\ Bookings[k].hasPerformance
                        /\ \A l \in users : l < k => ~Bookings[l].hasPerformance
              [] OTHER ->
                    /\ linked
                    /\ x.bookingId = Some(x.id[Len(x.id)])
                    /\ \E k \in 1..Len(Bookings) : Bookings[k].id = x.id[Len(x.id)]

\* two events overbook both halls in one slot and one of them has a
\* performance: the capacity alert of a hall and the performance alert are
\* listed for the bookings they are linked to, the complex-slot alert for none
C22_Witness ==
    /\ Len(Bookings) = 2
    /\ DistinctIds(Bookings)
    /\ \E i, j, c \in 1..Len(alerts) :
        /\ alerts[i].type = "CAPACITY_OVERRIDE"
        /\ alerts[j].type = "PERFORMANCE_HALL_CONFLICT"
        /\ alerts[c].type = "COMPLEX_MULTI_HALL_DAY"
        /\ alerts[i].bookingId = Some(2)
        /\ alerts[j].bookingId = Some(1)
        /\ ReturnedFor(2, alerts[i])
        /\ ReturnedFor(1, alerts[j])
        /\ \A b \in EngineIdInputs : ~ReturnedFor(b, alerts[c])


----------------------------------------------------------------------------
(* A session that starts on an item it did not write itself *)

MaxStoredEntries == 2

\* the keys of a stored map, in the order the map lists them: the two alert
\* ids and the empty string
StoredKeys == <<<<"soft", "follow", 1>>, <<"missing", "contact", 1>>, <<>>>>

\* an entry that says who it is for: no alertId, either alert id, the empty
\* string, a number
IdEntries ==
    {JObject(id \o <<<<"status", JString("DISMISSED")>>, <<"updatedAt", JString(10)>>>>) :
        id \in {<<>>,
                <<<<"alertId", JString(<<"soft", "follow", 1>>)>>>>,
                <<<<"alertId", JString(<<"missing", "contact", 1>>)>>>>,
                <<<<"alertId", JString(<<>>)>>>>,
                <<<<"alertId", JNumber(7)>>>>}}

\* an entry with no status, a status in lower case, a number, ACTIVE, RESOLVED
StatusEntries ==
    {JObject(status \o <<<<"updatedAt", JString(10)>>>>) :
        status \in {<<>>,
                    <<<<"status", JString("dismissed")>>>>,
                    <<<<"status", JNumber(1)>>>>,
                    <<<<"status", JString("ACTIVE")>>>>,
                    <<<<"status", JString("RESOLVED")>>>>}}

\* entries of older versions: reason for note, dismissedAt and resolvedAt for
\* updatedAt, alone or next to the current field
LegacyEntries ==
    {JObject(<<<<"status", JString("DISMISSED")>>,
               <<"reason", JString(<<" ", "r", " ">>)>>,
               <<"dismissedAt", JString(20)>>,
               <<"resolvedAt", JString(30)>>>>),
     JObject(<<<<"status", JString("DISMISSED")>>,
               <<"note", JString(<<" ", "a">>)>>,
               <<"reason", JString(<<"r">>)>>,
               <<"updatedAt", JString(10)>>,
               <<"dismissedAt", JString(20)>>,
               <<"resolvedAt", JString(30)>>>>),
     JObject(<<<<"status", JString("RESOLVED")>>,
               <<"note", JNumber(1)>>,
               <<"reason", JString(<<"r">>)>>,
               <<"resolvedAt", JString(30)>>>>),
     JObject(<<<<"status", JString("RESOLVED")>>,
               <<"note", JString(<<>>)>>,
               <<"reason", JString(<<"r">>)>>>>),
     JObject(<<<<"status", JString("DISMISSED")>>,
               <<"reason", JString(<<" ">>)>>,
               <<"updatedAt", JNumber(1)>>,
               <<"dismissedAt", JNumber(2)>>,
               <<"resolvedAt", JString(30)>>>>)}

\* entries that are no records at all: a string, null, an array
OtherEntries == {JString(<<"x">>), JNull, JArray(<<>>)}

StoredEntries == IdEntries \cup StatusEntries \cup LegacyEntries \cup OtherEntries

\* the stored maps of at most MaxStoredEntries entries
StoredMaps ==
    UNION {{[i \in 1..n |-> <<StoredKeys[ks[i]], vs[i]>>] :
                ks \in {f \in [1..n -> 1..Len(StoredKeys)] :
                            \A i, j \in 1..n : i < j => f[i] < f[j]},
                vs \in [1..n -> StoredEntries]} :
           n \in 0..MaxStoredEntries}

\* what getItem can find: nothing, a map, or a text that is no map
StoredItems ==
    {None, Some(EmptyText), Some(InvalidText), Some(JNull), Some(JNumber(5)),
     Some(JArray(<<JObject(<<<<"status", JString("DISMISSED")>>>>)>>))}
        \cup {Some(JObject(m)) : m \in StoredMaps}

\* the bookings the store starts with: none, or an inquiry for today with no
\* phone number
FirstBookings ==
    {<<>>,
     <<[Booking(2, "DINNER", "INQUIRY", FALSE, <<>>) EXCEPT
            !.id = 1, !.customerPhone = Some(<<>>)]>>}

\* the first render is done and its effects have not run yet
InitLoad ==
    /\ storage \in StoredItems
    /\ hasLoadedRef = FALSE
    /\ pending = <<>>
    /\ phase = "mounted"
    /\ build = "production"
    /\ disk = "ok"
    /\ allBookings \in FirstBookings
    /\ now = NowStart
    /\ zone = "FIXED"
    /\ resolutions = <<>>
    /\ baseAlerts = buildAlerts(ActiveBookings(allBookings), now)
    /\ alerts = MergeAlerts(baseAlerts, resolutions)
    /\ lastOp = Op("init", None, None, None)
    /\ orphaned = {}

NextLoad ==
    \/ RunEffects
    \/ Flush

SpecLoad == InitLoad /\ [][NextLoad]_vars


----------------------------------------------------------------------------
(* Vocabulary of load normalization *)

\* the load effect of this session has handed a map to setResolutions, and
\* the render that applies it has not run yet
JustLoaded == phase = "flush" /\ pending /= <<>>

\* the map normalizeResolutions returned
Loaded == pending[1]

\* the item the load effect found is a map
ReadsMap == IsSome(lastOp.read) /\ TypeOf(Get(lastOp.read)) = "object"

\* the entries of the stored map the load effect found
ReadEntries == IF ReadsMap THEN ValueOf(Get(lastOp.read)) ELSE <<>>

\* the entry is an object (an array is one to typeof)
IsRecordEntry(entry) == TypeOf(entry[2]) \in {"object", "array"}

\* the value of a field of the entry when it is a string, absent otherwise
TextField(entry, field) ==
    IF TypeOf(entry[2]) = "object" /\ IsString(ValueOf(entry[2]), field)
    THEN Some(ValueOf(MapGet(ValueOf(entry[2]), field))) ELSE None

\* the alert id that can be recovered from an entry: its alertId field when
\* that is a non-empty string, otherwise its key
RecoverableId(entry) ==
    IF IsSome(TextField(entry, "alertId")) /\ Get(TextField(entry, "alertId")) /= <<>>
    THEN Get(TextField(entry, "alertId")) ELSE entry[1]

\* the alert id the code takes from an entry: its alertId field when that is
\* a string, otherwise its key
EntryId(entry) ==
    IF IsSome(TextField(entry, "alertId"))
    THEN Get(TextField(entry, "alertId")) ELSE entry[1]

----------------------------------------------------------------------------
(* C23: load normalization handles entries one by one.  For every          *)
(* persisted map, each entry that is an object with a recoverable alert id *)
(* (a non-empty alertId field, otherwise its map key) is loaded, and each  *)
(* entry that is not an object or has no recoverable alert id is dropped:  *)
(* the loaded map has a record for exactly the recoverable ids of the      *)
(* entries that are objects, whatever the other entries of the map are.    *)
C23_EntriesLoadOneByOne ==
    (JustLoaded /\ ReadsMap) =>
        /\ \A i \in 1..Len(ReadEntries) :
            (IsRecordEntry(ReadEntries[i]) /\ RecoverableId(ReadEntries[i]) /= <<>>) =>
                /\ RecoverableId(ReadEntries[i]) \in DOMAIN Loaded
                /\ Loaded[RecoverableId(ReadEntries[i])].alertId = RecoverableId(ReadEntries[i])
        /\ \A id \in DOMAIN Loaded :
            \E i \in 1..Len(ReadEntries) :
                /\ IsRecordEntry(ReadEntries[i])
                /\ RecoverableId(ReadEntries[i]) = id
                /\ id /= <<>>

\* what the code does: an alertId field that is a string stands for the
\* entry even when it is empty, and the entry is then dropped
C23_EntriesWithStringIdLoad ==
    (JustLoaded /\ ReadsMap) =>
        /\ \A i \in 1..Len(ReadEntries) :
            (IsRecordEntry(ReadEntries[i]) /\ EntryId(ReadEntries[i]) /= <<>>) =>
                /\ EntryId(ReadEntries[i]) \in DOMAIN Loaded
                /\ Loaded[EntryId(ReadEntries[i])].alertId = EntryId(ReadEntries[i])
        /\ \A id \in DOMAIN Loaded :
            \E i \in 1..Len(ReadEntries) :
                /\ IsRecordEntry(ReadEntries[i])
                /\ EntryId(ReadEntries[i]) = id
                /\ id /= <<>>


----------------------------------------------------------------------------
\* the session has finished starting on a stored map and nothing else has
\* happened yet
LoadDone == phase = "ready" /\ lastOp.op = "init" /\ ReadsMap

\* entry i is an object with an alert id, and no later entry of the map is
\* one with the same id
Decides(i) ==
    /\ IsRecordEntry(ReadEntries[i])
    /\ EntryId(ReadEntries[i]) /= <<>>
    /\ \A j \in (i + 1)..Len(ReadEntries) :
        ~(IsRecordEntry(ReadEntries[j]) /\ EntryId(ReadEntries[j]) = EntryId(ReadEntries[i]))

\* the status of the entry is absent, not a string, or a string other than
\* DISMISSED and RESOLVED
UnknownStatus(entry) ==
    \/ TextField(entry, "status") = None
    \/ Get(TextField(entry, "status")) \notin {"DISMISSED", "RESOLVED"}

(* C24: a persisted entry whose status is absent, not a string, or any     *)
(* string other than exactly DISMISSED or RESOLVED never makes an alert    *)
(* non-active: after load the id of the entry has the status ACTIVE, and   *)
(* an emitted alert with that id has effectiveStatus ACTIVE and is         *)
(* returned by getAlertsForBooking for its booking, like an alert with no  *)
(* record.                                                                 *)
C24_UnknownStatusIsActive ==
    LoadDone =>
        \A i \in 1..Len(ReadEntries) :
            (Decides(i) /\ UnknownStatus(ReadEntries[i])) =>
                /\ StatusOf(resolutions, EntryId(ReadEntries[i])) = "ACTIVE"
                /\ \A k \in 1..Len(alerts) :
                    alerts[k].id = EntryId(ReadEntries[i]) =>
                        /\ alerts[k].effectiveStatus = "ACTIVE"
                        /\ IsSome(alerts[k].bookingId) =>
                                ReturnedFor(Get(alerts[k].bookingId), alerts[k])

\* the stored entry of soft-follow-1 has the status "dismissed" in lower
\* case, next to a DISMISSED entry of missing-contact-1: the first alert is
\* loaded with a record and is ACTIVE and listed for booking 1, the second
\* is not listed
C24_Witness ==
    /\ LoadDone
    /\ Len(ReadEntries) = 2
    /\ Decides(1)
    /\ TextField(ReadEntries[1], "status") = Some("dismissed")
    /\ TextField(ReadEntries[2], "status") = Some("DISMISSED")
    /\ Len(alerts) = 2
    /\ alerts[1].id = EntryId(ReadEntries[1])
    /\ IsSome(alerts[1].resolution)
    /\ alerts[1].effectiveStatus = "ACTIVE"
    /\ ReturnedFor(1, alerts[1])
    /\ alerts[2].effectiveStatus = "DISMISSED"
    /\ ~ReturnedFor(1, alerts[2])


----------------------------------------------------------------------------
\* the first of the fields that is a string in the entry, absent if none is
FirstText(entry, fields) ==
    IF \E k \in 1..Len(fields) : IsSome(TextField(entry, fields[k]))
    THEN TextField(entry,
            fields[CHOOSE k \in 1..Len(fields) :
                        /\ IsSome(TextField(entry, fields[k]))
                        /\ \A l \in 1..(k - 1) : TextField(entry, fields[l]) = None])
    ELSE None

(* C25: legacy shapes are accepted on load.  An entry without a string     *)
(* note but with a string reason loads with note = that reason; an entry   *)
(* without a string updatedAt loads with updatedAt = its dismissedAt if    *)
(* present, else its resolvedAt; when both the current and the legacy      *)
(* field are present the current field (note, updatedAt) wins.             *)
C25_LegacyFieldsAsStored ==
    (JustLoaded /\ ReadsMap) =>
        \A i \in 1..Len(ReadEntries) :
            Decides(i) =>
                LET entry == ReadEntries[i]
                    record == Loaded[EntryId(entry)]
                    note == FirstText(entry, <<"note", "reason">>)
                    updatedAt == FirstText(entry, <<"updatedAt", "dismissedAt", "resolvedAt">>)
                IN  /\ IsSome(note) => record.note = note
                    /\ IsSome(updatedAt) => record.updatedAt = Get(updatedAt)

\* C25 as amended: the note loaded is the note field when that is a string
\* and otherwise the reason field when that is a string, without its leading
\* and trailing whitespace, and absent when nothing is left of it (a blank
\* note is not replaced by the reason); updatedAt as claimed.
C25_LegacyFieldsTrimmed ==
    (JustLoaded /\ ReadsMap) =>
        \A i \in 1..Len(ReadEntries) :
            Decides(i) =>
                LET entry == ReadEntries[i]
                    record == Loaded[EntryId(entry)]
                    note == FirstText(entry, <<"note", "reason">>)
                    updatedAt == FirstText(entry, <<"updatedAt", "dismissedAt", "resolvedAt">>)
                IN  /\ IsSome(note) =>
                        record.note = IF Blank(note) THEN None ELSE Some(Trim(Get(note)))
                    /\ IsSome(updatedAt) => record.updatedAt = Get(updatedAt)

\* an entry of an older version, with a padded reason, a dismissedAt and a
\* resolvedAt, next to an entry that has the current fields as well
C25_Witness ==
    /\ JustLoaded
    /\ Len(ReadEntries) = 2
    /\ Decides(1)
    /\ Decides(2)
    /\ TextField(ReadEntries[1], "note") = None
    /\ TextField(ReadEntries[1], "reason") = Some(<<" ", "r", " ">>)
    /\ TextField(ReadEntries[1], "updatedAt") = None
    /\ Loaded[EntryId(ReadEntries[1])].note = Some(<<"r">>)
    /\ Loaded[EntryId(ReadEntries[1])].updatedAt = 20
    /\ TextField(ReadEntries[2], "reason") = Some(<<"r">>)
    /\ Loaded[EntryId(ReadEntries[2])].note = Some(<<"a">>)
    /\ Loaded[EntryId(ReadEntries[2])].updatedAt = 10


----------------------------------------------------------------------------
(* A session on storage that may fail *)

\* what getItem can find: nothing, a text that is not JSON, or a map with
\* one entry under the key soft-follow-1
SessionItems ==
    {None, Some(InvalidText)}
        \cup {Some(JObject(<<<<StoredKeys[1], entry>>>>)) : entry \in IdEntries}

\* the first render is done, with an inquiry for today in the booking store,
\* and its effects have not run yet
InitSession ==
    /\ storage \in SessionItems
    /\ hasLoadedRef = FALSE
    /\ pending = <<>>
    /\ phase = "mounted"
    /\ build = "production"
    /\ disk \in Disks
    /\ allBookings \in FirstBookings \ {<<>>}
    /\ now = NowStart
    /\ zone = "FIXED"
    /\ resolutions = <<>>
    /\ baseAlerts = buildAlerts(ActiveBookings(allBookings), now)
    /\ alerts = MergeAlerts(baseAlerts, resolutions)
    /\ lastOp = Op("init", None, None, None)
    /\ orphaned = {}

NextSession ==
    \/ RunEffects
    \/ Flush
    \/ \E id \in AlertIdInputs, note \in NoteInputs : phase = "ready" /\ resolveAlert(id, note)
    \/ \E id \in AlertIdInputs, note \in NoteInputs : phase = "ready" /\ dismissAlert(id, note)
    \/ \E id \in AlertIdInputs : phase = "ready" /\ reopenAlert(id)

SpecSession == InitSession /\ [][NextSession]_vars

\* the record a call of resolve or dismiss stores, and none for reopen
Written(op) ==
    CASE op.op = "resolve" ->
            Some([alertId |-> Get(op.id),
                  status |-> "RESOLVED",
                  note |-> IF ~Blank(op.note) THEN Some(Trim(Get(op.note)))
                           ELSE IF IsSome(op.prev) THEN Get(op.prev).note ELSE None,
                  updatedAt |-> now])
      [] op.op = "dismiss" ->
            Some([alertId |-> Get(op.id),
                  status |-> "DISMISSED",
                  note |-> IF ~Blank(op.note) THEN Some(Trim(Get(op.note))) ELSE None,
                  updatedAt |-> now])
      [] op.op = "reopen" -> None

(* C26: a persistence failure never changes what the session sees.  With   *)
(* storage that works, whose writes fail or that cannot be used at all,    *)
(* and with an item that cannot be read, a call of resolve, dismiss or     *)
(* reopen leaves the in-memory store with the same records: the record of  *)
(* the call for its id (none after reopen) and every other record as it    *)
(* was; the merged alerts show the in-memory records; no exception leaves  *)
(* an effect; and a failed write leaves the stored item as it was.         *)
C26_FailuresLeaveSessionAlone ==
    /\ [][lastOp'.op \in StoreOps =>
            /\ Stored(resolutions', Get(lastOp'.id)) = Written(lastOp')
            /\ lastOp'.prev = Stored(resolutions, Get(lastOp'.id))
            /\ \A x \in (DOMAIN resolutions \cup DOMAIN resolutions') \ {Get(lastOp'.id)} :
                Stored(resolutions', x) = Stored(resolutions, x)
            /\ disk /= "ok" => storage' = storage]_vars
    /\ [](phase /= "crashed")
    /\ [](\A k \in 1..Len(alerts) :
            /\ alerts[k].resolution = Stored(resolutions, alerts[k].id)
            /\ alerts[k].effectiveStatus = StatusOf(resolutions, alerts[k].id))
    /\ [](phase = "ready" =>
            \A id \in AlertIdInputs :
                /\ ENABLED resolveAlert(id, None)
                /\ ENABLED dismissAlert(id, None)
                /\ ENABLED reopenAlert(id))

\* the stored item could not be parsed and every write fails: the alert
\* just dismissed with a note is DISMISSED in the merged list, and the
\* stored item is still the unreadable one
C26_Witness ==
    /\ disk = "full"
    /\ storage = Some(InvalidText)
    /\ phase = "ready"
    /\ lastOp.op = "dismiss"
    /\ lastOp.note = Some(<<"a">>)
    /\ Len(MergedOf(LastId)) = 1
    /\ MergedOf(LastId)[1].effectiveStatus = "DISMISSED"
    /\ Get(MergedOf(LastId)[1].resolution).note = Some(<<"a">>)


----------------------------------------------------------------------------
(* C27: persisting happens only after the initial load completes.  While   *)
(* the records the load effect found in storage have not been applied to   *)
(* the in-memory store yet, the stored item is the one the load effect     *)
(* found: no state has a non-empty stored map overwritten by the empty     *)
(* initial in-memory map.                                                  *)
C27_NoWriteBeforeLoad ==
    (phase = "flush" /\ ReadsMap /\ ReadEntries /= <<>>) => storage = lastOp.read


----------------------------------------------------------------------------
(* The clock: the interval timer keeps firing while the page is open *)

\* the last instant the clock reaches
LastNow == NowStart + MaxTicks * TickHours

SpecClock == SpecDate /\ WF_vars(Tick(TickHours, LastNow))

\* the booking with this id, when it is an INQUIRY or TENTATIVE
SoftBookings(bookingId) ==
    SelectSeq(Bookings, LAMBDA b : b.id = bookingId /\ b.status \in SoftStatuses)

\* the follow-up alert is there exactly from D - 15 to D, the past-open
\* alert exactly after D, for every INQUIRY or TENTATIVE booking dated D
AgesByDay ==
    \A i \in 1..Len(Bookings) :
        LET b == Bookings[i]
            D == b.eventDateLabel
        IN  b.status \in SoftStatuses =>
                /\ SoftFollowAlertsFor(b.id) /= <<>> <=>
                        (D - FollowUpDays <= Today /\ Today <= D)
                /\ PastOpenAlertsFor(b.id) /= <<>> <=> Today > D
                /\ ~(SoftFollowAlertsFor(b.id) /= <<>> /\ PastOpenAlertsFor(b.id) /= <<>>)

\* once the past-open alert of a booking is there it stays and the
\* follow-up alert does not come back
PastOpenStays ==
    \A id \in 1..MaxDateBookings :
        (SoftBookings(id) /= <<>> /\ PastOpenAlertsFor(id) /= <<>>) =>
            /\ PastOpenAlertsFor(id)' /= <<>>
            /\ SoftFollowAlertsFor(id)' = <<>>

\* a booking dated before the last day the clock reaches
DueBookings(bookingId) ==
    SelectSeq(SoftBookings(bookingId),
        LAMBDA b : b.eventDateLabel < LocalDay(zone, LastNow))

----------------------------------------------------------------------------
(* C28: date-relative alerts age with the clock alone.  With the bookings  *)
(* unchanged, for an INQUIRY or TENTATIVE booking dated D, as the timer    *)
(* ticks soft-follow-{id} is present exactly while D - 15 <= today <= D,   *)
(* past-open-{id} is present on every tick once today > D, the two are     *)
(* never present together, soft-follow-{id} never comes back after         *)
(* past-open-{id} has appeared, and with fair ticks past-open-{id}         *)
(* eventually appears without any booking edit.                            *)
C28_AlertsAgeWithClock ==
    /\ []AgesByDay
    /\ [][PastOpenStays]_vars
    /\ \A id \in 1..MaxDateBookings :
        (DueBookings(id) /= <<>>) ~> (PastOpenAlertsFor(id) /= <<>>)

\* where the zone never changes its offset the alerts age as claimed
C28_AlertsAgeFixedZone ==
    /\ [](zone = "FIXED" => AgesByDay)
    /\ [][PastOpenStays]_vars
    /\ \A id \in 1..MaxDateBookings :
        (DueBookings(id) /= <<>>) ~> (PastOpenAlertsFor(id) /= <<>>)


----------------------------------------------------------------------------
(* The trash: bookings are deleted and restored while alerts are dismissed *)

MaxTrashBookings == 2

\* a large inquiry for tonight in both halls with a performance and no
\* phone number; a confirmed event in the same halls
TrashBookings ==
    {[Booking(2, "DINNER", "INQUIRY", TRUE,
              <<Hall("A", 1000, 700), Hall("B", 1000, 400)>>) EXCEPT
          !.totalGuests = 1100, !.hallAGuests = Some(700), !.hallBGuests = Some(400),
          !.customerPhone = None],
     [Booking(2, "DINNER", "CONFIRMED", FALSE,
              <<Hall("A", 1000, 400), Hall("B", 1000, 700)>>) EXCEPT
          !.totalGuests = 1100, !.hallAGuests = Some(400), !.hallBGuests = Some(700)]}

\* a per-booking alert and a hall aggregate
TrashAlertIds == {<<"soft", "follow", 1>>, <<"cap", 2, "DINNER", "A">>}

NextTrash ==
    \/ \E t \in TrashBookings : AddBooking(t, MaxTrashBookings)
    \/ \E id \in 1..MaxTrashBookings : DeleteBooking(id)
    \/ \E id \in 1..MaxTrashBookings : RestoreBooking(id)
    \/ \E id \in TrashAlertIds : dismissAlert(id, Some(<<"a">>))
    \/ \E id \in TrashAlertIds : reopenAlert(id)

SpecTrash == Init /\ [][NextTrash]_vars

\* the active bookings other than those with this id
Others(bookingId) == SelectSeq(Bookings, LAMBDA b : b.id /= bookingId)

\* what the alert list shows of each alert: id, status and note
Shown(merged) ==
    {<<merged[i].id, merged[i].effectiveStatus,
       IF IsSome(merged[i].resolution) THEN Get(merged[i].resolution).note ELSE None>> :
        i \in 1..Len(merged)}

\* after deleteBooking(id): no alert is linked to the booking, and the hall
\* aggregates are those of the other active bookings
DeletedFeedsNothing ==
    lastOp.op = "deleteBooking" =>
        /\ \A i \in 1..Len(alerts) : alerts[i].bookingId /= Some(LastId)
        /\ \A i \in 1..Len(alerts) :
                alerts[i].type \notin AggregateTypes =>
                    alerts[i].id[Len(alerts[i].id)] /= LastId
        /\ \A day \in EventDays, slot \in Slots, hallCode \in HallCodes :
            LET hits == CapacityAlertsFor(day, slot, hallCode)
                allocations == AllocationsOf(Others(LastId), day, slot, hallCode)
            IN  /\ hits /= <<>> <=> OverCapacity(Others(LastId), day, slot, hallCode)
                /\ \A i \in 1..Len(hits) : hits[i].message.used = SumGuestsHere(allocations)
                /\ PerformanceAlertsFor(day, slot, hallCode) /= <<>> =>
                        \E i \in UsersOf(Others(LastId), day, slot, hallCode) :
                            Others(LastId)[i].hasPerformance

\* what was shown before the last deleteBooking
ShownBefore == Get(lastOp.shown)

\* restoreBooking(id) right after deleteBooking(id) of an active booking
RestoresLastDeleted ==
    /\ lastOp.op = "deleteBooking"
    /\ HasBooking(ShownBefore.bookings, LastId)
    /\ lastOp'.op = "restoreBooking"
    /\ lastOp'.id = lastOp.id

----------------------------------------------------------------------------
(* C29: soft-deleted bookings never feed the alerts.  After                *)
(* deleteBooking(id) the merged alert list has no per-booking alert of     *)
(* that booking and every aggregate leaves out its guests and allocations; *)
(* after restoreBooking(id) the same alert ids are emitted again, and a    *)
(* resolution stored for one of them before the deletion still applies,    *)
(* with the same effectiveStatus and note as before the deletion.          *)
C29_DeleteAndRestore ==
    /\ []DeletedFeedsNothing
    /\ [][lastOp'.op \in {"deleteBooking", "restoreBooking"} =>
                resolutions' = resolutions]_vars
    /\ [][RestoresLastDeleted => Shown(alerts') = Shown(ShownBefore.alerts)]_vars

\* while no two bookings of the repository share an id, restoring gives
\* back the very list that was shown before the deletion
C29_DeleteAndRestoreDistinctIds ==
    /\ []DeletedFeedsNothing
    /\ [][lastOp'.op \in {"deleteBooking", "restoreBooking"} =>
                resolutions' = resolutions]_vars
    /\ [][(RestoresLastDeleted /\ DistinctIds(allBookings)) => alerts' = ShownBefore.alerts]_vars

\* a dismissed follow-up alert with its note is back after the restore
C29_RestoredWithRecord ==
    /\ lastOp.op = "restoreBooking"
    /\ DistinctIds(allBookings)
    /\ <<<<"soft", "follow", 1>>, "DISMISSED", Some(<<"a">>)>> \in Shown(alerts)
    /\ Len(CapacityAlertsFor(2, "DINNER", "A")) = 1


----------------------------------------------------------------------------
(* C30: in every reachable state of the resolution store, after load       *)
(* normalization and any sequence of resolve, dismiss and reopen, each     *)
(* record stored under key k has alertId = k, so there is at most one      *)
(* record per alert id and the lookup by definition id finds the record    *)
(* that was written for that id.                                           *)
C30_RecordsKeyedByAlertId ==
    /\ \A k \in DOMAIN resolutions : resolutions[k].alertId = k
    /\ \A k, l \in DOMAIN resolutions :
            resolutions[k].alertId = resolutions[l].alertId => k = l
    /\ \A i \in 1..Len(pending) :
            \A k \in DOMAIN pending[i] : pending[i][k].alertId = k
    /\ \A i \in 1..Len(alerts) :
            IsSome(alerts[i].resolution) =>
                Get(alerts[i].resolution).alertId = alerts[i].id

\* the entry stored under the key soft-follow-1 named missing-contact-1 and
\* was loaded under that id; soft-follow-1 was dismissed afterwards
C30_Witness ==
    /\ phase = "ready"
    /\ lastOp.op = "dismiss"
    /\ LastId = <<"soft", "follow", 1>>
    /\ DOMAIN resolutions = {<<"soft", "follow", 1>>, <<"missing", "contact", 1>>}
    /\ resolutions[<<"missing", "contact", 1>>].updatedAt = 10
    /\ resolutions[<<"soft", "follow", 1>>].updatedAt = now
    /\ Len(MergedOf(<<"missing", "contact", 1>>)) = 1
    /\ MergedOf(<<"missing", "contact", 1>>)[1].effectiveStatus = "DISMISSED"

====
